---------------------------- MODULE Spec2Model ----------------------------
(***************************************************************************)
(* A model of iccinspector.py: the ICC profile decoder.                    *)
(*                                                                         *)
(* Conventions.                                                            *)
(*  - A byte buffer (bytes / memoryview) is a sequence of 0..255; Python   *)
(*    offset k is sequence index k+1.                                      *)
(*  - A Python str produced by bytes.decode("utf-8") is represented by the *)
(*    bytes of its UTF-8 encoding; decoding is the validity check.         *)
(*  - An attribute that may be None is a sequence: <<>> is None, <<v>> is  *)
(*    the value v.                                                         *)
(*  - A float is an exact fraction [n |-> numerator, d |-> denominator].   *)
(*  - A call that may raise returns [ok |-> FALSE] or [ok |-> TRUE, v].    *)
(*    A read() method returns [raised, self]: whether it raised and the    *)
(*    object's attributes afterwards (assignments made before the raise    *)
(*    persist, as in Python).                                              *)
(***************************************************************************)
EXTENDS Integers, Sequences, FiniteSets, TLC

\* Bound: the largest number of tag-table entries of a generated profile.
MaxTags == 2

\* Bound: the largest count a generated curve declares.
MaxCount == 3

\* Bound: the largest number of samples a generated curve holds.
MaxSamples == 2

\* Bound: the longest byte view handed to a primitive reader called directly.
MaxViewLen == 4

\* Bound: the largest number of read() calls made on one iccProfile instance.
MaxReads == 2

VARIABLES
    byteorder,  \* sys.byteorder of the build ("little" or "big")
    buffer,     \* buffer[i]: the bytes handed to read() of decoder instance i
    profile,    \* profile[i]: the attributes of iccProfile instance i
    pc,         \* pc[i]: index of the next attribute read() visits (1..19), 20 = returned
    tagidx,     \* tagidx[i]: the loop variable `count` of iccTagTable.read, -1 outside the loop
    stdout,     \* stdout[i]: the lines read() printed, in order
    result,     \* result[i]: how iccProfile.read ended: "none" yet, "returned", "raised"
    call,       \* a direct call of a module-level function: its name, argument, outcome
    report,     \* report[i]: how print(testField) ended: "none" yet, "printed", "raised"
    files,      \* files[i]: None before the -e loop, then the .spi1d files it wrote
    reads       \* reads[i]: the number of read() calls made on instance i

vars ==
    <<byteorder, buffer, profile, pc, tagidx, stdout, result, call, report, files, reads>>

-----------------------------------------------------------------------------
(* Python and struct primitives *)

Min(a, b) == IF a < b THEN a ELSE b

\* buffer[lo:hi] for 0 <= lo, 0 <= hi: indices are clamped to the length.
Slice(s, lo, hi) ==
    IF lo >= Min(hi, Len(s)) THEN <<>> ELSE SubSeq(s, lo + 1, Min(hi, Len(s)))

\* buffer[lo:]
SliceFrom(s, lo) == Slice(s, lo, Len(s))

Ok(x) == [ok |-> TRUE, v |-> x]

Err == [ok |-> FALSE]

None == <<>>

Some(x) == <<x>>

Frac(num, den) == [n |-> num, d |-> den]

\* Length in bytes of the well-formed UTF-8 character starting at s[i], 0 if none
\* (the strict decoder of bytes.decode("utf-8")).
Utf8CharLen(s, i) ==
    LET b == s[i]
        cont(k) == i + k <= Len(s) /\ s[i + k] \in 128..191
        in(k, lo, hi) == i + k <= Len(s) /\ s[i + k] \in lo..hi
    IN  CASE b < 128 -> 1
          [] b \in 194..223 /\ cont(1) -> 2
          [] b = 224 /\ in(1, 160, 191) /\ cont(2) -> 3
          [] b \in (225..236) \cup (238..239) /\ cont(1) /\ cont(2) -> 3
          [] b = 237 /\ in(1, 128, 159) /\ cont(2) -> 3
          [] b = 240 /\ in(1, 144, 191) /\ cont(2) /\ cont(3) -> 4
          [] b \in 241..243 /\ cont(1) /\ cont(2) /\ cont(3) -> 4
          [] b = 244 /\ in(1, 128, 143) /\ cont(2) /\ cont(3) -> 4
          [] OTHER -> 0

RECURSIVE Utf8Valid(_, _)
Utf8Valid(s, i) ==
    IF i > Len(s) THEN TRUE
    ELSE LET k == Utf8CharLen(s, i) IN k > 0 /\ Utf8Valid(s, i + k)

\* UTF-16BE: an even number of bytes, surrogates only in high/low pairs.
RECURSIVE Utf16Valid(_, _)
Utf16Valid(s, i) ==
    IF i > Len(s) THEN TRUE
    ELSE IF i + 1 > Len(s) THEN FALSE
    ELSE LET hi == s[i]
         IN  IF hi \in 216..219
             THEN /\ i + 3 <= Len(s)
                  /\ s[i + 2] \in 220..223
                  /\ Utf16Valid(s, i + 4)
             ELSE hi \notin 220..223 /\ Utf16Valid(s, i + 2)

\* unpack_string: struct "{n}s" with n = len(s) never fails; decode may.
unpack_string(s, codec) ==
    IF codec = "utf-16be"
    THEN IF Utf16Valid(s, 1) THEN Ok(s) ELSE Err
    ELSE IF Utf8Valid(s, 1) THEN Ok(s) ELSE Err

\* struct.unpack("4s", s) needs exactly 4 bytes; then decode("utf-8").
unpack_tagSignature(s) ==
    IF Len(s) = 4 /\ Utf8Valid(s, 1) THEN Ok(s) ELSE Err

unpack_uInt8Number(s) ==
    IF Len(s) = 1 THEN Ok(s[1]) ELSE Err

unpack_uInt16Number(s) ==
    IF Len(s) = 2 THEN Ok(s[1] * 256 + s[2]) ELSE Err

unpack_uInt32Number(s) ==
    IF Len(s) = 4
    THEN Ok(((s[1] * 256 + s[2]) * 256 + s[3]) * 256 + s[4])
    ELSE Err

\* A reading of four bytes in the wrong byte order (dtype "<i4").
BeInt32_LittleEndian(s, k) ==
    LET b == 4 * k
        top == IF s[b + 4] >= 128 THEN s[b + 4] - 256 ELSE s[b + 4]
    IN  ((top * 256 + s[b + 3]) * 256 + s[b + 2]) * 256 + s[b + 1]

\* The k-th (0-based) big-endian signed 32-bit integer of s (dtype ">i4").
BeInt32(s, k) ==
    LET b == 4 * k
        top == IF s[b + 1] >= 128 THEN s[b + 1] - 256 ELSE s[b + 1]
    IN  ((top * 256 + s[b + 2]) * 256 + s[b + 3]) * 256 + s[b + 4]

\* The k-th (0-based) big-endian unsigned 16-bit integer of s (dtype ">u2").
BeUInt16(s, k) == s[2 * k + 1] * 256 + s[2 * k + 2]

\* numpy.frombuffer(s, ">i4", len(s) // 4) / 2**16: one float per whole 4 bytes;
\* a view shorter than 4 bytes gives the empty array, not an error.
unpack_s15Fixed16Number(s) ==
    [k \in 1..(Len(s) \div 4) |-> Frac(BeInt32(s, k - 1), 65536)]

\* numpy.frombuffer(s, ">u2", len(s) // 2) / 2**8
unpack_u8Fixed8Number(s) ==
    [k \in 1..(Len(s) \div 2) |-> Frac(BeUInt16(s, k - 1), 256)]

\* x * 2**16 for a float x = n/d: exact in binary floating point.  The power
\* of two is taken out of the denominator where it divides it, which keeps
\* the numerator within 32 bits.
TimesTwoPow16(x) ==
    IF x.d % 65536 = 0 THEN Frac(x.n, x.d \div 65536) ELSE Frac(x.n * 65536, x.d)

\* round(x) of Python 3 for x = n/d, d > 0: to the nearest integer, ties to
\* the even one.
round(x) ==
    LET q == x.n \div x.d
        r == x.n % x.d
    IN  IF 2 * r < x.d THEN q
        ELSE IF 2 * r > x.d THEN q + 1
        ELSE IF q % 2 = 0 THEN q ELSE q + 1

\* int(round(x * 2**16))
fs15f16(x) == round(TimesTwoPow16(x))

\* struct.unpack("b", s): one signed byte.
SignedByte(b) == IF b >= 128 THEN b - 256 ELSE b

\* struct.unpack("H", s): an unsigned 16-bit integer in the build's byte order.
NativeUInt16(s, order) ==
    IF order = "little" THEN s[2] * 256 + s[1] ELSE s[1] * 256 + s[2]

-----------------------------------------------------------------------------
(* The module-level tables *)

_colorspacesignatures(sig) ==
    CASE sig = <<88, 89, 90, 32>> -> "nCIEXYZ or PCSXYZ"  \* "XYZ "
      [] sig = <<76, 97, 98, 32>> -> "CIELAB or PCSLAB"  \* "Lab "
      [] sig = <<76, 117, 118, 32>> -> "CIELUV"  \* "Luv "
      [] sig = <<89, 67, 98, 114>> -> "YCbCr"  \* "YCbr"
      [] sig = <<89, 120, 121, 32>> -> "CIEYxy"  \* "Yxy "
      [] sig = <<82, 71, 66, 32>> -> "RGB"  \* "RGB "
      [] sig = <<71, 82, 65, 89>> -> "Gray"  \* "GRAY"
      [] sig = <<72, 83, 86, 32>> -> "HSV"  \* "HSV "
      [] sig = <<72, 76, 83, 32>> -> "HLS"  \* "HLS "
      [] sig = <<67, 77, 89, 75>> -> "CMYK"  \* "CMYK"
      [] sig = <<67, 77, 89, 32>> -> "CMY"  \* "CMY "
      [] sig = <<50, 67, 76, 82>> -> "2 colour"  \* "2CLR"
      [] sig = <<51, 67, 76, 82>> -> "3 colour"  \* "3CLR"
      [] sig = <<52, 67, 76, 82>> -> "4 colour"  \* "4CLR"
      [] sig = <<53, 67, 76, 82>> -> "5 colour"  \* "5CLR"
      [] sig = <<54, 67, 76, 82>> -> "6 colour"  \* "6CLR"
      [] sig = <<55, 67, 76, 82>> -> "7 colour"  \* "7CLR"
      [] sig = <<56, 67, 76, 82>> -> "8 colour"  \* "8CLR"
      [] sig = <<57, 67, 76, 82>> -> "9 colour"  \* "9CLR"
      [] sig = <<65, 67, 76, 82>> -> "10 colour"  \* "ACLR"
      [] sig = <<66, 67, 76, 82>> -> "11 colour"  \* "BCLR"
      [] sig = <<67, 67, 76, 82>> -> "12 colour"  \* "CCLR"
      [] sig = <<68, 67, 76, 82>> -> "13 colour"  \* "DCLR"
      [] sig = <<69, 67, 76, 82>> -> "14 colour"  \* "ECLR"
      [] sig = <<70, 67, 76, 82>> -> "15 colour"  \* "FCLR"
      [] OTHER -> "None"

_profileclasssignatures(sig) ==
    CASE sig = <<115, 99, 110, 114>> -> "Input device profile"  \* "scnr"
      [] sig = <<109, 110, 116, 114>> -> "Display device profile"  \* "mntr"
      [] sig = <<112, 114, 116, 114>> -> "Output device profile"  \* "prtr"
      [] sig = <<108, 105, 110, 107>> -> "DeviceLink profile"  \* "link"
      [] sig = <<115, 112, 97, 99>> -> "ColorSpace profile"  \* "spac"
      [] sig = <<97, 98, 115, 116>> -> "Abstract profile"  \* "abst"
      [] sig = <<110, 109, 99, 108>> -> "NamedColor profile"  \* "nmcl"
      [] OTHER -> "None"

_primaryplatformsignatures(sig) ==
    CASE sig = <<65, 80, 80, 76>> -> "Apple Computer, Inc."  \* "APPL"
      [] sig = <<77, 83, 70, 84>> -> "Microsoft Corporation"  \* "MSFT"
      [] sig = <<83, 71, 73, 32>> -> "Silicon Graphics, Inc."  \* "SGI "
      [] sig = <<83, 85, 78, 87>> -> "Sun Microsystems, Inc."  \* "SUNW"
      [] OTHER -> "None"

\* The keys of _renderingintenttable; a key outside it is a KeyError.
RenderingIntents == 0..3

_renderingintenttable(k) ==
    CASE k = 0 -> "Perceptual"
      [] k = 1 -> "Media-relative colorimetric"
      [] k = 2 -> "Saturation"
      [] k = 3 -> "ICC-absolute colorimetric"

\* The keys of _parametriccurvetypetable.
ParametricTypes == 0..4

\* _parametriccurvetypetable[t]["parameters"], in insertion order.
ParametricParameters(t) ==
    CASE t = 0 -> <<"g">>
      [] t = 1 -> <<"g", "a", "b">>
      [] t = 2 -> <<"g", "a", "b", "c">>
      [] t = 3 -> <<"g", "a", "b", "c", "d">>
      [] t = 4 -> <<"g", "a", "b", "c", "d", "e", "f">>

ParametricFunction(t) ==
    CASE t = 0 -> "Y = X**g"
      [] t = 1 -> "Y = (aX + b)**g if X >= -b/a else Y = 0"
      [] t = 2 -> "Y = (aX + b)**g + c if X >= -b/a else Y = c"
      [] t = 3 -> "Y = (aX + b)**g if X >= d else Y = cX"
      [] t = 4 -> "Y = (aX + b)**g if X >= d else Y = cX + f"

-----------------------------------------------------------------------------
(* XYZNumber *)

\* XYZNumber.__init__: numpy.array([0., 0., 0.]) twice.
XYZNumber ==
    [XYZ |-> <<Frac(0, 1), Frac(0, 1), Frac(0, 1)>>,
     xyY |-> <<Frac(0, 1), Frac(0, 1), Frac(0, 1)>>]

RECURSIVE SumNumerators(_, _)
SumNumerators(a, k) ==
    IF k > Len(a) THEN 0 ELSE a[k].n + SumNumerators(a, k + 1)

\* What numpy.divide(a, s, where=False) may return: no `out` is given, so the
\* result is freshly allocated memory that the masked-out loop never writes.
\* Two representative contents: zero bits and some other float.
Uninitialized == {Frac(0, 1), Frac(1, 1)}

\* numpy.divide(a, XYZ_sum, where=XYZ_sum != 0) on scalars; a and XYZ_sum share
\* the denominator 2**16, so the quotient is a.n / sum.  u is the content of
\* the uninitialized result.
DivideWhere(a, sum, u) == IF sum # 0 THEN Frac(a.n, sum) ELSE u

\* XYZNumber.read.  u = <<ux, uy>>: the uninitialized results of the two divides.
XYZNumber_read(self, buf, u) ==
    LET xyz == unpack_s15Fixed16Number(buf)
        sum == SumNumerators(xyz, 1)
    IN  IF Len(xyz) = 0
        THEN [raised |-> TRUE, self |-> [self EXCEPT !.XYZ = xyz]]
        ELSE IF Len(xyz) = 1
        THEN [raised |-> TRUE,
              self |-> [XYZ |-> xyz,
                        xyY |-> [self.xyY EXCEPT ![1] = DivideWhere(xyz[1], sum, u[1])]]]
        ELSE [raised |-> FALSE,
              self |-> [XYZ |-> xyz,
                        xyY |-> <<DivideWhere(xyz[1], sum, u[1]),
                                  DivideWhere(xyz[2], sum, u[2]),
                                  xyz[2]>>]]

\* Whether XYZNumber.read on buf reads uninitialized memory (XYZ_sum == 0 and
\* at least one divide is reached).
XYZReadsUninitialized(buf) ==
    LET xyz == unpack_s15Fixed16Number(buf)
    IN  Len(xyz) >= 1 /\ SumNumerators(xyz, 1) = 0

-----------------------------------------------------------------------------
(* The header elements: __init__ state and read() of each class *)

iccProfileSize == [profilesize |-> None]

iccProfileSize_read(self, buf) ==
    LET r == unpack_uInt32Number(Slice(buf, 0, 4))
    IN  IF r.ok THEN [raised |-> FALSE, self |-> [profilesize |-> Some(r.v)]]
        ELSE [raised |-> TRUE, self |-> self]

iccPreferredCMMType == [preferredcmmtype |-> None]

iccPreferredCMMType_read(self, buf) ==
    LET r == unpack_tagSignature(Slice(buf, 4, 8))
    IN  IF r.ok THEN [raised |-> FALSE, self |-> [preferredcmmtype |-> Some(r.v)]]
        ELSE [raised |-> TRUE, self |-> self]

\* _reserved is not set by __init__; None stands for the missing attribute.
iccProfileVersion ==
    [majorVersion |-> None, minorVersion |-> None, bugFixVersion |-> None,
     reserved |-> None]

\* struct "b" is a signed byte: >> 4 is an arithmetic shift (floor division by
\* 16) and & 0b1111 is the residue modulo 16.
iccProfileVersion_read(self, buf, order) ==
    LET versionbuffer == Slice(buf, 8, 12)
        b0 == Slice(versionbuffer, 0, 1)
        b1 == Slice(versionbuffer, 1, 2)
        b23 == Slice(versionbuffer, 2, 4)
        s1 == [self EXCEPT !.majorVersion = Some(SignedByte(b0[1]))]
        s2 == [s1 EXCEPT !.minorVersion = Some(SignedByte(b1[1]) \div 16),
                         !.bugFixVersion = Some(SignedByte(b1[1]) % 16)]
    IN  IF Len(b0) # 1 THEN [raised |-> TRUE, self |-> self]
        ELSE IF Len(b1) # 1 THEN [raised |-> TRUE, self |-> s1]
        ELSE IF Len(b23) # 2 THEN [raised |-> TRUE, self |-> s2]
        ELSE [raised |-> FALSE,
              self |-> [s2 EXCEPT !.reserved = Some(NativeUInt16(b23, order))]]

iccProfileDeviceClass ==
    [profiledeviceclass |-> None, profiledeviceclassdescription |-> None]

iccProfileDeviceClass_read(self, buf) ==
    LET r == unpack_tagSignature(Slice(Slice(buf, 12, 16), 0, 4))
    IN  IF r.ok
        THEN [raised |-> FALSE,
              self |-> [profiledeviceclass |-> Some(r.v),
                        profiledeviceclassdescription |->
                            Some(_profileclasssignatures(r.v))]]
        ELSE [raised |-> TRUE, self |-> self]

iccDataColorSpace == [datacolorspace |-> None, datacolorspacedescription |-> None]

iccDataColorSpace_read(self, buf) ==
    LET r == unpack_tagSignature(Slice(Slice(buf, 16, 20), 0, 4))
    IN  IF r.ok
        THEN [raised |-> FALSE,
              self |-> [datacolorspace |-> Some(r.v),
                        datacolorspacedescription |-> Some(_colorspacesignatures(r.v))]]
        ELSE [raised |-> TRUE, self |-> self]

iccPCS == [pcs |-> None, pcsdescription |-> None]

iccPCS_read(self, buf) ==
    LET r == unpack_tagSignature(Slice(Slice(buf, 20, 24), 0, 4))
    IN  IF r.ok
        THEN [raised |-> FALSE,
              self |-> [pcs |-> Some(r.v),
                        pcsdescription |-> Some(_colorspacesignatures(r.v))]]
        ELSE [raised |-> TRUE, self |-> self]

IsLeapYear(y) == y % 4 = 0 /\ (y % 100 # 0 \/ y % 400 = 0)

DaysInMonth(y, m) ==
    CASE m \in {1, 3, 5, 7, 8, 10, 12} -> 31
      [] m \in {4, 6, 9, 11} -> 30
      [] m = 2 -> IF IsLeapYear(y) THEN 29 ELSE 28

\* Whether datetime.datetime(y, m, d, h, mi, s) is accepted (else ValueError).
ValidDateTime(t) ==
    /\ t[1] \in 1..9999
    /\ t[2] \in 1..12
    /\ t[3] \in 1..DaysInMonth(t[1], t[2])
    /\ t[4] \in 0..23
    /\ t[5] \in 0..59
    /\ t[6] \in 0..59

iccDateTimeNumber == [datetime |-> None]

\* A read() that lets the ValueError of datetime() escape as an ICCFileError.
iccDateTimeNumber_read_Fatal(self, buf) ==
    LET datetimebuffer == Slice(buf, 24, 36)
        u(k) == unpack_uInt16Number(Slice(datetimebuffer, 2 * k, 2 * k + 2))
        t == [k \in 1..6 |-> u(k - 1).v]
    IN  IF \E k \in 0..5 : ~u(k).ok
        THEN [raised |-> TRUE, self |-> self, printed |-> FALSE]
        ELSE IF ValidDateTime(t)
        THEN [raised |-> FALSE, self |-> [datetime |-> Some(t)], printed |-> FALSE]
        ELSE [raised |-> TRUE, self |-> self, printed |-> FALSE]

\* read() returns [raised, self, printed]: a ValueError of datetime() is
\* printed and passed, leaving _datetime as it was; any other exception (a
\* struct.error of a short slice) is re-raised as ICCFileError.
iccDateTimeNumber_read(self, buf) ==
    LET datetimebuffer == Slice(buf, 24, 36)
        u(k) == unpack_uInt16Number(Slice(datetimebuffer, 2 * k, 2 * k + 2))
        t == [k \in 1..6 |-> u(k - 1).v]
    IN  IF \E k \in 0..5 : ~u(k).ok
        THEN [raised |-> TRUE, self |-> self, printed |-> FALSE]
        ELSE IF ValidDateTime(t)
        THEN [raised |-> FALSE, self |-> [datetime |-> Some(t)], printed |-> FALSE]
        ELSE [raised |-> FALSE, self |-> self, printed |-> TRUE]

iccProfileFileSignature == [profilefilesignature |-> None]

acsp == <<97, 99, 115, 112>>

\* The attribute is assigned before the comparison with "acsp"; the
\* ICCFileError of a mismatch is caught by the method's own except clause and
\* raised again with another message.
iccProfileFileSignature_read(self, buf) ==
    LET r == unpack_tagSignature(Slice(buf, 36, 40))
    IN  IF ~r.ok THEN [raised |-> TRUE, self |-> self]
        ELSE [raised |-> r.v # acsp, self |-> [profilefilesignature |-> Some(r.v)]]

iccPrimaryPlatform == [primaryplatform |-> None, primaryplatformdescription |-> None]

iccPrimaryPlatform_read(self, buf) ==
    LET r == unpack_tagSignature(Slice(Slice(buf, 40, 44), 0, 4))
    IN  IF r.ok
        THEN [raised |-> FALSE,
              self |-> [primaryplatform |-> Some(r.v),
                        primaryplatformdescription |->
                            Some(_primaryplatformsignatures(r.v))]]
        ELSE [raised |-> TRUE, self |-> self]

iccProfileFlags == [profileflags |-> None]

\* struct.unpack("=4b", ...)[0]: four signed bytes, the first one kept.
iccProfileFlags_read(self, buf) ==
    LET b == Slice(Slice(buf, 44, 48), 0, 4)
    IN  IF Len(b) = 4
        THEN [raised |-> FALSE, self |-> [profileflags |-> Some(SignedByte(b[1]))]]
        ELSE [raised |-> TRUE, self |-> self]

iccDeviceManufacturer == [devicemanufacturer |-> None]

iccDeviceManufacturer_read(self, buf) ==
    LET r == unpack_tagSignature(Slice(Slice(buf, 48, 52), 0, 4))
    IN  IF r.ok THEN [raised |-> FALSE, self |-> [devicemanufacturer |-> Some(r.v)]]
        ELSE [raised |-> TRUE, self |-> self]

iccDeviceModel == [devicemodel |-> None]

iccDeviceModel_read(self, buf) ==
    LET r == unpack_tagSignature(Slice(Slice(buf, 52, 56), 0, 4))
    IN  IF r.ok THEN [raised |-> FALSE, self |-> [devicemodel |-> Some(r.v)]]
        ELSE [raised |-> TRUE, self |-> self]

iccDeviceAttributes == [deviceattributes |-> None]

\* struct.unpack("=8b", ...)[0]: eight signed bytes, the first one kept.
iccDeviceAttributes_read(self, buf) ==
    LET b == Slice(Slice(buf, 56, 64), 0, 8)
    IN  IF Len(b) = 8
        THEN [raised |-> FALSE, self |-> [deviceattributes |-> Some(SignedByte(b[1]))]]
        ELSE [raised |-> TRUE, self |-> self]

iccRenderingIntent == [renderingintent |-> None, renderingintentdescription |-> None]

\* _renderingintent is assigned before the table lookup: a value that is not
\* a key raises KeyError with the number already stored.
iccRenderingIntent_read(self, buf) ==
    LET r == unpack_uInt32Number(Slice(Slice(buf, 64, 68), 0, 4))
    IN  IF ~r.ok THEN [raised |-> TRUE, self |-> self]
        ELSE IF r.v \notin RenderingIntents
        THEN [raised |-> TRUE, self |-> [self EXCEPT !.renderingintent = Some(r.v)]]
        ELSE [raised |-> FALSE,
              self |-> [renderingintent |-> Some(r.v),
                        renderingintentdescription |-> Some(_renderingintenttable(r.v))]]

iccPCSIlluminant == [pcsilluminant |-> XYZNumber]

iccPCSIlluminant_read(self, buf, u) ==
    LET r == XYZNumber_read(self.pcsilluminant, Slice(buf, 68, 80), u)
    IN  [raised |-> r.raised, self |-> [pcsilluminant |-> r.self]]

iccProfileCreator == [profilecreator |-> None]

iccProfileCreator_read(self, buf) ==
    LET r == unpack_tagSignature(Slice(Slice(buf, 80, 84), 0, 4))
    IN  IF r.ok THEN [raised |-> FALSE, self |-> [profilecreator |-> Some(r.v)]]
        ELSE [raised |-> TRUE, self |-> self]

\* bytes(16)
iccProfileID == [profileid |-> [k \in 1..16 |-> 0]]

\* struct "{n}s" with n = len(slice): never fails, keeps a short slice as it is.
iccProfileID_read(self, buf) ==
    [raised |-> FALSE, self |-> [profileid |-> Slice(buf, 84, 100)]]

\* bytes(28)
iccReserved == [reserved |-> [k \in 1..28 |-> 0]]

iccReserved_read(self, buf) ==
    [raised |-> FALSE, self |-> [reserved |-> Slice(buf, 100, 128)]]

-----------------------------------------------------------------------------
(* The element types.  Each constructor runs read(); it returns Err when    *)
(* read() raises ICCFileError and Ok(element) otherwise.  An element keeps  *)
(* its class name, its slice and its attributes.  A read() is written as a  *)
(* chain of operators, one per stretch of the method, each handing the      *)
(* values read so far to the next.                                          *)

\* iccProfileElement.__init__: slice(offset, offset + length).
iccProfileElement(offset, length) == [start |-> offset, stop |-> offset + length]

\* buffer[self._slice]
ElementBuffer(offset, length, buf) == Slice(buf, offset, offset + length)

\* The attributes every element type reads first: the type signature at bytes
\* 0..4 and the reserved u32 at bytes 4..8 of the element's slice.
ElementBase(class, offset, length, sig, reserved) ==
    IF sig.ok /\ reserved.ok
    THEN Ok([class |-> class, slice |-> iccProfileElement(offset, length),
             typesignature |-> sig.v, reserved |-> reserved.v])
    ELSE Err

ElementHead(class, offset, length, b) ==
    ElementBase(class, offset, length,
                unpack_tagSignature(Slice(b, 0, 4)),
                unpack_uInt32Number(Slice(b, 4, 8)))

\* CurveSamples with the samples scaled by 2**16 instead of 2**16 - 1.
CurveSamples_PowerOfTwo(b, n) ==
    IF Len(b) - 12 < 2 * n THEN Err
    ELSE Ok([k \in 1..n |-> Frac(BeUInt16(SliceFrom(b, 12), k - 1), 65536)])

\* numpy.frombuffer(b, dtype=">u2", count=n, offset=12) / (2**16 - 1): raises
\* when fewer than 2*n bytes follow offset 12.
CurveSamples(b, n) ==
    IF Len(b) - 12 < 2 * n THEN Err
    ELSE Ok([k \in 1..n |-> Frac(BeUInt16(SliceFrom(b, 12), k - 1), 65535)])

\* The 1D curve branch of curvType.read.
curvType_samples(base, samples) ==
    IF samples.ok
    THEN Ok(base @@ [curvetype |-> "1D Curve", curve |-> Some(samples.v)])
    ELSE Err

\* The branch on _entriescount of curvType.read.
curvType_curve(base, b, n) ==
    IF n = 0
    THEN Ok(base @@ [entriescount |-> n, curvetype |-> "Identity Curve", curve |-> None])
    ELSE IF n = 1
    THEN Ok(base @@ [entriescount |-> n, curvetype |-> "Power Function",
                     curve |-> Some(unpack_u8Fixed8Number(Slice(b, 12, 14)))])
    ELSE curvType_samples(base @@ [entriescount |-> n], CurveSamples(b, n))

curvType_count(head, b, entriescount) ==
    IF head.ok /\ entriescount.ok
    THEN curvType_curve(head.v, b, entriescount.v)
    ELSE Err

curvType_read(offset, length, b) ==
    curvType_count(ElementHead("curvType", offset, length, b), b,
                   unpack_uInt32Number(Slice(b, 8, 12)))

curvType(offset, length, buf) ==
    curvType_read(offset, length, ElementBuffer(offset, length, buf))

\* A loop that takes the parameters from element byte 8 on instead of 12.
paraType_parameters_FromByte8(base, b, t, names) ==
    Ok(base @@ [functiontype |-> t,
                function |-> ParametricFunction(t),
                parameters |->
                    [index \in 1..Len(names) |->
                        <<names[index],
                          unpack_s15Fixed16Number(
                              Slice(b, (index - 1) * 4 + 8, (index - 1) * 4 + 12))>>]])

\* The loop over the parameter names of paraType.read.  The dict _parameters
\* is the sequence of its (name, value) items.
paraType_parameters(base, b, t, names) ==
    Ok(base @@ [functiontype |-> t,
                function |-> ParametricFunction(t),
                parameters |->
                    [index \in 1..Len(names) |->
                        <<names[index],
                          unpack_s15Fixed16Number(
                              Slice(b, (index - 1) * 4 + 12, (index - 1) * 4 + 16))>>]])

\* _parametriccurvetypetable.get(t, -1): for an unknown t the -1 has no get().
paraType_function(head, b, functiontype, reservedsecond) ==
    IF ~head.ok \/ ~functiontype.ok \/ ~reservedsecond.ok THEN Err
    ELSE IF functiontype.v \notin ParametricTypes THEN Err
    ELSE paraType_parameters(head.v @@ [reservedsecond |-> reservedsecond.v], b,
                             functiontype.v, ParametricParameters(functiontype.v))

paraType_read(offset, length, b) ==
    paraType_function(ElementHead("paraType", offset, length, b), b,
                      unpack_uInt16Number(Slice(b, 8, 10)),
                      unpack_uInt16Number(Slice(b, 10, 12)))

paraType(offset, length, buf) ==
    paraType_read(offset, length, ElementBuffer(offset, length, buf))

\* descType.read from the ScriptCode code on.
descType_scriptcode(base, scriptcodecode, scriptcodecount, scriptcodedescription) ==
    IF scriptcodecode.ok /\ scriptcodecount.ok /\ scriptcodedescription.ok
    THEN Ok(base @@ [scriptcodecode |-> scriptcodecode.v,
                     scriptcodecount |-> scriptcodecount.v,
                     scriptcodedescription |-> scriptcodedescription.v])
    ELSE Err

\* descType.read from the Unicode description on.
descType_unicodetext(base, b, endofascii, endofunicode, unicodedescription) ==
    IF unicodedescription.ok
    THEN descType_scriptcode(
             base @@ [unicodedescription |-> unicodedescription.v],
             unpack_uInt16Number(Slice(b, endofunicode, endofunicode + 2)),
             unpack_uInt8Number(Slice(b, endofunicode + 2, endofunicode + 3)),
             unpack_string(Slice(b, endofunicode + 3, endofunicode + 70), "utf-8"))
    ELSE Err

\* descType.read from the Unicode language code on.
descType_unicode(base, b, endofascii, asciidescription, unicodecode, unicodecount) ==
    IF asciidescription.ok /\ unicodecode.ok /\ unicodecount.ok
    THEN descType_unicodetext(
             base @@ [asciidescription |-> asciidescription.v,
                      unicodecode |-> unicodecode.v,
                      unicodecount |-> unicodecount.v],
             b, endofascii, endofascii + unicodecount.v + 8,
             unpack_string(Slice(b, endofascii + 8, endofascii + unicodecount.v + 8),
                           "utf-8"))
    ELSE Err

\* descType.read from the ASCII description on.
descType_ascii(base, b, endofascii) ==
    descType_unicode(base, b, endofascii,
                     unpack_string(Slice(b, 12, endofascii), "utf-8"),
                     unpack_uInt32Number(Slice(b, endofascii, endofascii + 4)),
                     unpack_uInt32Number(Slice(b, endofascii + 4, endofascii + 8)))

descType_count(head, b, asciicount) ==
    IF head.ok /\ asciicount.ok
    THEN descType_ascii(head.v @@ [asciicount |-> asciicount.v], b, 12 + asciicount.v)
    ELSE Err

descType_read(offset, length, b) ==
    descType_count(ElementHead("descType", offset, length, b), b,
                   unpack_uInt32Number(Slice(b, 8, 12)))

descType(offset, length, buf) ==
    descType_read(offset, length, ElementBuffer(offset, length, buf))

textType_description(head, description) ==
    IF head.ok /\ description.ok
    THEN Ok(head.v @@ [description |-> description.v])
    ELSE Err

textType_read(offset, length, b) ==
    textType_description(ElementHead("textType", offset, length, b),
                         unpack_string(SliceFrom(b, 8), "utf-8"))

textType(offset, length, buf) ==
    textType_read(offset, length, ElementBuffer(offset, length, buf))

\* The slices XYZ_Type.read hands to XYZNumber.read, by index 0..xyzcount-1;
\* xyzcount is computed from the declared length, not from the bytes present.
XYZSlices(length, b) ==
    [count \in 0..(((length - 8) \div 12) - 1) |->
        Slice(b, count * 12 + 8, (count + 1) * 12 + 8)]

\* The array _XYZ once every XYZNumber has been read; any read that raises
\* makes XYZ_Type.read raise.
XYZ_Type_array(head, numbers) ==
    IF \E count \in DOMAIN numbers : numbers[count].raised THEN Err
    ELSE Ok(head @@ [XYZ |-> [count \in 1..Cardinality(DOMAIN numbers) |->
                                 numbers[count - 1].self]])

\* u[count]: the uninitialized results the count-th XYZNumber.read may read.
\* numpy.empty(xyzcount) raises for a negative xyzcount.
XYZ_Type_numbers(head, xyzcount, slices, u) ==
    IF ~head.ok \/ xyzcount < 0 THEN Err
    ELSE XYZ_Type_array(head.v,
             [count \in DOMAIN slices |->
                 XYZNumber_read(XYZNumber, slices[count], u[count])])

XYZ_Type_read(offset, length, b, u) ==
    XYZ_Type_numbers(ElementHead("XYZ_Type", offset, length, b),
                     (length - 8) \div 12, XYZSlices(length, b), u)

XYZ_Type(offset, length, buf, u) ==
    XYZ_Type_read(offset, length, ElementBuffer(offset, length, buf), u)

sf32Type_array(head, sf32) ==
    IF head.ok THEN Ok(head.v @@ [sf32 |-> sf32]) ELSE Err

\* sf32typebuffer[8:self._slice.stop]: the stop is the absolute offset + size,
\* used as an index into the element's own slice.
sf32Type_read(offset, length, b) ==
    sf32Type_array(ElementHead("sf32Type", offset, length, b),
                   unpack_s15Fixed16Number(Slice(b, 8, offset + length)))

sf32Type(offset, length, buf) ==
    sf32Type_read(offset, length, ElementBuffer(offset, length, buf))

\* mlucRecord(lang, country, text) of one pass of the record loop.
mlucRecord(lang, country, text) ==
    IF lang.ok /\ country.ok /\ text.ok
    THEN Ok([lang |-> lang.v, country |-> country.v, text |-> text.v])
    ELSE Err

\* The string of a record: element bytes [offset, offset + size), UTF-16BE.
mlucText(b, size, offset) ==
    IF size.ok /\ offset.ok
    THEN unpack_string(Slice(b, offset.v, offset.v + size.v), "utf-16be")
    ELSE Err

\* One pass of the record loop of mlucType.read, the record starting at `start`.
mlucType_record(b, start) ==
    mlucRecord(unpack_string(Slice(b, start, start + 2), "utf-8"),
               unpack_string(Slice(b, start + 2, start + 4), "utf-8"),
               mlucText(b, unpack_uInt32Number(Slice(b, start + 4, start + 8)),
                        unpack_uInt32Number(Slice(b, start + 8, start + 12))))

Prepend(r, rest) ==
    IF r.ok /\ rest.ok THEN Ok(<<r.v>> \o rest.v) ELSE Err

\* The records idx..recordcount-1, or Err when a record raises (the loop ends
\* at the first record that raises).
RECURSIVE mlucRecords(_, _, _)
mlucRecords(b, idx, recordcount) ==
    IF idx >= recordcount THEN Ok(<<>>)
    ELSE Prepend(mlucType_record(b, 16 + idx * 12),
                 mlucRecords(b, idx + 1, recordcount))

mlucType_records(head, recordcount, recordsize, records) ==
    IF head.ok /\ recordcount.ok /\ recordsize.ok /\ records.ok
    THEN Ok(head.v @@ [recordcount |-> recordcount.v, recordsize |-> recordsize.v,
                       records |-> records.v])
    ELSE Err

mlucType_count(head, b, recordcount, recordsize) ==
    mlucType_records(head, recordcount, recordsize,
                     IF recordcount.ok THEN mlucRecords(b, 0, recordcount.v) ELSE Err)

mlucType_read(offset, length, b) ==
    mlucType_count(ElementHead("mlucType", offset, length, b), b,
                   unpack_uInt32Number(Slice(b, 8, 12)),
                   unpack_uInt32Number(Slice(b, 12, 16)))

mlucType(offset, length, buf) ==
    mlucType_read(offset, length, ElementBuffer(offset, length, buf))

-----------------------------------------------------------------------------
(* iccTag and iccTagTable *)

\* The names N for which the module has a class N + "Type": what
\* getattr(sys.modules[__name__], "{}Type".format(signaturetype)) finds.
ElementTypeNames ==
    { <<109, 108, 117, 99>>,    \* "mluc"
      <<99, 117, 114, 118>>,    \* "curv"
      <<112, 97, 114, 97>>,     \* "para"
      <<100, 101, 115, 99>>,    \* "desc"
      <<116, 101, 120, 116>>,   \* "text"
      <<88, 89, 90, 95>>,       \* "XYZ_"
      <<115, 102, 51, 50>> }    \* "sf32"

\* str.replace(" ", "_")
ReplaceSpaces(str) == [k \in 1..Len(str) |-> IF str[k] = 32 THEN 95 ELSE str[k]]

\* signatureclass(self._tagoffset, self._tagsize, buffer)
signatureclass(name, offset, length, buf, u) ==
    CASE name = <<109, 108, 117, 99>> -> mlucType(offset, length, buf)
      [] name = <<99, 117, 114, 118>> -> curvType(offset, length, buf)
      [] name = <<112, 97, 114, 97>> -> paraType(offset, length, buf)
      [] name = <<100, 101, 115, 99>> -> descType(offset, length, buf)
      [] name = <<116, 101, 120, 116>> -> textType(offset, length, buf)
      [] name = <<88, 89, 90, 95>> -> XYZ_Type(offset, length, buf, u)
      [] name = <<115, 102, 51, 50>> -> sf32Type(offset, length, buf)

TagFields(tagsignature, tagoffset, tagsize) ==
    IF tagsignature.ok /\ tagoffset.ok /\ tagsize.ok
    THEN Ok([tagsignature |-> tagsignature.v, tagoffset |-> tagoffset.v,
             tagsize |-> tagsize.v])
    ELSE Err

\* The three fields of the 12-byte table entry tagbuffer.
TagBuffer(tagbuffer) ==
    TagFields(unpack_tagSignature(Slice(tagbuffer, 0, 4)),
              unpack_uInt32Number(Slice(tagbuffer, 4, 8)),
              unpack_uInt32Number(Slice(tagbuffer, 8, 12)))

\* The three fields of the table entry at `position` of buf.
TagEntry(position, buf) == TagBuffer(Slice(buf, position, position + 12))

Replaced(signaturetype) ==
    IF signaturetype.ok THEN Ok(ReplaceSpaces(signaturetype.v)) ELSE Err

\* The class name the four bytes at the tag's offset select, after the
\* replacement of spaces; Err when they cannot be unpacked.
SignatureType(tagoffset, buf) ==
    Replaced(unpack_tagSignature(Slice(buf, tagoffset, tagoffset + 4)))

\* The attributes of an iccTag whose read() has returned.
iccTag(position, entry, type) ==
    [slice |-> iccProfileElement(position, 12),
     tagsignature |-> entry.tagsignature,
     tagoffset |-> entry.tagoffset,
     tagsize |-> entry.tagsize,
     type |-> type]

\* self._type = signatureclass(...): an element whose read() raises
\* ICCFileError makes iccTag.read raise.
iccTag_element(position, entry, element) ==
    IF element.ok THEN Ok(iccTag(position, entry, Some(element.v))) ELSE Err

\* The inner try block of iccTag.read.  Only the AttributeError of an unknown
\* class name is passed; every other exception (an unpack error of the type
\* signature, the ICCFileError of an element's read) reaches the outer except
\* clause.
iccTag_dispatch(position, entry, signaturetype, buf, u) ==
    IF ~signaturetype.ok THEN Err
    ELSE IF signaturetype.v \notin ElementTypeNames
    THEN Ok(iccTag(position, entry, None))
    ELSE iccTag_element(position, entry,
             signatureclass(signaturetype.v, entry.tagoffset, entry.tagsize, buf, u))

iccTag_entry(position, entry, buf, u) ==
    IF ~entry.ok THEN Err
    ELSE iccTag_dispatch(position, entry.v, SignatureType(entry.v.tagoffset, buf), buf, u)

\* iccTag(position).read(buffer): Err when it raises ICCFileError, else the
\* tag's attributes.
iccTag_read(position, buf, u) ==
    iccTag_entry(position, TagEntry(position, buf), buf, u)

iccTagTable == [tagcount |-> None, tags |-> None]

\* numpy.empty(n, dtype=[("signature", "U4"), ("tag", object)]): the object
\* field makes numpy zero the memory: each row is ('', None).
EmptyTags(n) == [k \in 1..n |-> [signature |-> <<>>, tag |-> None]]

\* The tag-table entry position of loop pass `count`.
TagPosition(count) == (count * 12) + 132

\* iccTagTable.read up to the loop: the tag count and the empty array.
iccTagTable_begin(self, buf) ==
    LET r == unpack_uInt32Number(Slice(buf, 128, 132))
    IN  IF r.ok
        THEN [raised |-> FALSE,
              self |-> [tagcount |-> Some(r.v), tags |-> Some(EmptyTags(r.v))]]
        ELSE [raised |-> TRUE, self |-> self]

\* A str stored in a "U4" field and read back: numpy keeps no trailing NULs.
\* (A signature decoded from four bytes never exceeds four characters.)
RECURSIVE U4(_)
U4(str) ==
    IF str # <<>> /\ str[Len(str)] = 0 THEN U4(SubSeq(str, 1, Len(str) - 1)) ELSE str

\* self._tags[count] = (tag.signature, tag), unless tag.read raised.
iccTagTable_store(self, count, tag) ==
    IF tag.ok
    THEN [raised |-> FALSE,
          self |-> [self EXCEPT !.tags = Some([self.tags[1] EXCEPT ![count + 1] =
                        [signature |-> U4(tag.v.tagsignature), tag |-> Some(tag.v)]])]]
    ELSE [raised |-> TRUE, self |-> self]

\* One pass of the loop of iccTagTable.read: a tag that raises ends read()
\* with the rows from `count` on still empty.
iccTagTable_pass(self, count, buf, u) ==
    iccTagTable_store(self, count, iccTag_read(TagPosition(count), buf, u))

EntryXYZSlices(entry, signaturetype, buf) ==
    IF signaturetype.ok /\ signaturetype.v = <<88, 89, 90, 95>>
    THEN XYZSlices(entry.tagsize, ElementBuffer(entry.tagoffset, entry.tagsize, buf))
    ELSE <<>>

ReadableEntryXYZSlices(entry, buf) ==
    IF entry.ok
    THEN EntryXYZSlices(entry.v, SignatureType(entry.v.tagoffset, buf), buf)
    ELSE <<>>

\* The indices of the XYZNumber reads of loop pass `count` on buf (empty when
\* the tag does not reach XYZ_Type), with the slice each one reads.
TagXYZSlices(count, buf) ==
    ReadableEntryXYZSlices(TagEntry(TagPosition(count), buf), buf)

\* The contents uninitialized memory may have for the XYZNumber reads over
\* `slices`: free where a read reaches a masked-out divide, fixed elsewhere.
UninitializedFor(slices) ==
    { u \in [DOMAIN slices -> Uninitialized \X Uninitialized] :
        \A c \in DOMAIN slices :
            XYZReadsUninitialized(slices[c]) \/ u[c] = <<Frac(0, 1), Frac(0, 1)>> }

-----------------------------------------------------------------------------
(* iccProfile *)

\* iccProfile.__init__: the attributes in the order vars(self) lists them.
Attributes ==
    << "profilesize", "preferredcmmtype", "profileversion", "profiledeviceclass",
       "datacolorspace", "pcs", "datetimenumber", "profilefilesignature",
       "primaryplatform", "profileflags", "devicemanufacturer", "devicemodel",
       "deviceattributes", "renderingintent", "pcsilluminant", "profilecreator",
       "profileid", "reserved", "tagtable" >>

\* type(var).__name__ of each attribute.
ClassName ==
    << "iccProfileSize", "iccPreferredCMMType", "iccProfileVersion",
       "iccProfileDeviceClass", "iccDataColorSpace", "iccPCS", "iccDateTimeNumber",
       "iccProfileFileSignature", "iccPrimaryPlatform", "iccProfileFlags",
       "iccDeviceManufacturer", "iccDeviceModel", "iccDeviceAttributes",
       "iccRenderingIntent", "iccPCSIlluminant", "iccProfileCreator",
       "iccProfileID", "iccReserved", "iccTagTable" >>

iccProfile ==
    [profilesize |-> iccProfileSize,
     preferredcmmtype |-> iccPreferredCMMType,
     profileversion |-> iccProfileVersion,
     profiledeviceclass |-> iccProfileDeviceClass,
     datacolorspace |-> iccDataColorSpace,
     pcs |-> iccPCS,
     datetimenumber |-> iccDateTimeNumber,
     profilefilesignature |-> iccProfileFileSignature,
     primaryplatform |-> iccPrimaryPlatform,
     profileflags |-> iccProfileFlags,
     devicemanufacturer |-> iccDeviceManufacturer,
     devicemodel |-> iccDeviceModel,
     deviceattributes |-> iccDeviceAttributes,
     renderingintent |-> iccRenderingIntent,
     pcsilluminant |-> iccPCSIlluminant,
     profilecreator |-> iccProfileCreator,
     profileid |-> iccProfileID,
     reserved |-> iccReserved,
     tagtable |-> iccTagTable]

\* The position of the tag table in vars(self), and the position after the last.
TagTableAt == 19

Returned == 20

\* var.read(buffer) for the k-th header attribute (k in 1..18).
HeaderRead(k, self, buf, order, u) ==
    CASE k = 1 -> iccProfileSize_read(self, buf)
      [] k = 2 -> iccPreferredCMMType_read(self, buf)
      [] k = 3 -> iccProfileVersion_read(self, buf, order)
      [] k = 4 -> iccProfileDeviceClass_read(self, buf)
      [] k = 5 -> iccDataColorSpace_read(self, buf)
      [] k = 6 -> iccPCS_read(self, buf)
      [] k = 7 -> iccDateTimeNumber_read(self, buf)
      [] k = 8 -> iccProfileFileSignature_read(self, buf)
      [] k = 9 -> iccPrimaryPlatform_read(self, buf)
      [] k = 10 -> iccProfileFlags_read(self, buf)
      [] k = 11 -> iccDeviceManufacturer_read(self, buf)
      [] k = 12 -> iccDeviceModel_read(self, buf)
      [] k = 13 -> iccDeviceAttributes_read(self, buf)
      [] k = 14 -> iccRenderingIntent_read(self, buf)
      [] k = 15 -> iccPCSIlluminant_read(self, buf, u[0])
      [] k = 16 -> iccProfileCreator_read(self, buf)
      [] k = 17 -> iccProfileID_read(self, buf)
      [] k = 18 -> iccReserved_read(self, buf)

\* The XYZNumber reads of the k-th header attribute: the illuminant's one.
HeaderXYZSlices(k, buf) ==
    IF k = 15 THEN [c \in {0} |-> Slice(buf, 68, 80)] ELSE <<>>

\* What the except clause of iccProfile.read prints for attribute k.
SkipLine(k) == <<"Skip", ClassName[k]>>

-----------------------------------------------------------------------------
(* The input files: byte buffers built field by field *)

U16(n) == <<n \div 256, n % 256>>

U32(n) == <<n \div 16777216, (n \div 65536) % 256, (n \div 256) % 256, n % 256>>

RECURSIVE Flatten(_)
Flatten(ss) == IF ss = <<>> THEN <<>> ELSE Head(ss) \o Flatten(Tail(ss))

Zeros(n) == [k \in 1..n |-> 0]

\* The PCS illuminant D50 (0.9642, 1.0, 0.8249) as three s15Fixed16 numbers.
D50 == U32(63190) \o U32(65536) \o U32(54061)

\* The 128 header bytes for the given field values.
HeaderBytes(h) ==
    Flatten(<< U32(h.size),
               <<108, 99, 109, 115>>,       \* preferred CMM "lcms"
               h.ver,
               <<109, 110, 116, 114>>,      \* device class "mntr"
               <<82, 71, 66, 32>>,          \* data colour space "RGB "
               <<88, 89, 90, 32>>,          \* PCS "XYZ "
               Flatten([k \in 1..6 |-> U16(h.date[k])]),
               h.sig,
               <<65, 80, 80, 76>>,          \* primary platform "APPL"
               <<0, 0, 0, 1>>,              \* profile flags
               <<110, 111, 110, 101>>,      \* device manufacturer "none"
               <<110, 111, 110, 101>>,      \* device model "none"
               <<129, 0, 0, 0, 0, 0, 0, 2>>, \* device attributes
               U32(h.intent),
               h.illum,
               <<108, 99, 109, 115>>,       \* profile creator "lcms"
               [k \in 1..16 |-> k],         \* profile ID
               Zeros(28) >>)

\* A curv element of declared count n followed by the given sample bytes.
CurveElement(n, samples) ==
    [sig |-> <<107, 84, 82, 67>>, size |-> 12 + Len(samples),
     bytes |-> <<99, 117, 114, 118>> \o U32(0) \o U32(n) \o samples]

\* A para element of function type t: "para", 0, t, 0, the parameters of the
\* type (positive at odd places, negative at even ones), and four bytes more.
ParaElement(t) ==
    [sig |-> <<114, 84, 82, 67>>,
     size |-> 16 + 4 * Len(ParametricParameters(t)),
     bytes |-> <<112, 97, 114, 97>> \o U32(0) \o U16(t) \o U16(0)
               \o Flatten([index \in 1..Len(ParametricParameters(t)) |->
                              IF index % 2 = 1 THEN U32(65536 * index)
                              ELSE <<255, 254, 128, index>>])
               \o <<1, 2, 3, 4>>]

\* The tagged elements the generated profiles draw from: the tag signature,
\* the element bytes, and the size the table entry declares.
Element(kind) ==
    CASE kind = "curvN" ->     \* "curv", 0, count 3, samples 0x0000 0x1234 0xFFFF
            CurveElement(3, <<0, 0, 18, 52, 255, 255>>)
      [] kind = "curvShort" -> \* "curv", 0, count 4, but three samples only
            CurveElement(4, <<0, 1, 0, 2, 0, 3>>)
      [] kind = "ZZZZ" ->      \* no class ZZZZType
            [sig |-> <<119, 116, 112, 116>>, size |-> 16,
             bytes |-> <<90, 90, 90, 90>> \o U32(0) \o Zeros(8)]
      [] kind = "FFFF" ->      \* type bytes that are not UTF-8
            [sig |-> <<119, 116, 112, 116>>, size |-> 16,
             bytes |-> <<255, 255, 255, 255>> \o U32(0) \o Zeros(8)]
      [] kind = "text" ->      \* "text", 0, "abcdefgh"
            [sig |-> <<99, 112, 114, 116>>, size |-> 16,
             bytes |-> <<116, 101, 120, 116>> \o U32(0)
                       \o <<97, 98, 99, 100, 101, 102, 103, 104>>]
      [] kind = "textOver" ->  \* the same element, declared 100 bytes longer
            [sig |-> <<99, 112, 114, 116>>, size |-> 116,
             bytes |-> <<116, 101, 120, 116>> \o U32(0)
                       \o <<97, 98, 99, 100, 101, 102, 103, 104>>]
      [] kind = "para0" ->     \* "para", 0, function type 0, g = 1.0
            [sig |-> <<114, 84, 82, 67>>, size |-> 16,
             bytes |-> <<112, 97, 114, 97>> \o U32(0) \o U16(0) \o U16(0) \o U32(65536)]
      [] kind = "para1" -> ParaElement(1)
      [] kind = "para2" -> ParaElement(2)
      [] kind = "para3" -> ParaElement(3)
      [] kind = "para4" -> ParaElement(4)
      [] kind = "para9" ->     \* "para", 0, function type 9
            [sig |-> <<114, 84, 82, 67>>, size |-> 16,
             bytes |-> <<112, 97, 114, 97>> \o U32(0) \o U16(9) \o U16(0) \o U32(65536)]
      [] kind = "XYZ" ->       \* "XYZ ", 0, D50
            [sig |-> <<119, 116, 112, 116>>, size |-> 20,
             bytes |-> <<88, 89, 90, 32>> \o U32(0) \o D50]
      [] kind = "XYZ_" ->      \* "XYZ_", 0, D50: an underscore in place of the space
            [sig |-> <<119, 116, 112, 116>>, size |-> 20,
             bytes |-> <<88, 89, 90, 95>> \o U32(0) \o D50]
      [] kind = "XYZ0" ->      \* "XYZ ", 0, (0, 0, 0)
            [sig |-> <<119, 116, 112, 116>>, size |-> 20,
             bytes |-> <<88, 89, 90, 32>> \o U32(0) \o Zeros(12)]
      [] kind = "XYZcancel" -> \* "XYZ ", 0, (1.0, -1.0, 0.0): components that cancel
            [sig |-> <<119, 116, 112, 116>>, size |-> 20,
             bytes |-> <<88, 89, 90, 32>> \o U32(0) \o U32(65536)
                       \o <<255, 255, 0, 0>> \o U32(0)]
      [] kind = "sf32" ->      \* "sf32", 0, [0.5, -1.0]
            [sig |-> <<99, 104, 97, 100>>, size |-> 16,
             bytes |-> <<115, 102, 51, 50>> \o U32(0) \o U32(32768)
                       \o <<255, 255, 0, 0>>]
      [] kind = "mluc" ->      \* "mluc", 0, 1 record of 12 bytes: en, US, "Hi"
            [sig |-> <<100, 101, 115, 99>>, size |-> 32,
             bytes |-> <<109, 108, 117, 99>> \o U32(0) \o U32(1) \o U32(12)
                       \o <<101, 110, 85, 83>> \o U32(4) \o U32(28)
                       \o <<0, 72, 0, 105>>]
      [] kind = "mlucOver" ->  \* as "mluc", the record declaring 8 bytes at offset 28
            [sig |-> <<100, 101, 115, 99>>, size |-> 32,
             bytes |-> <<109, 108, 117, 99>> \o U32(0) \o U32(1) \o U32(12)
                       \o <<101, 110, 85, 83>> \o U32(8) \o U32(28)
                       \o <<0, 72, 0, 105>>]
      [] kind = "mlucBeyond" -> \* as "mluc", the record declaring 4 bytes at offset 40
            [sig |-> <<100, 101, 115, 99>>, size |-> 32,
             bytes |-> <<109, 108, 117, 99>> \o U32(0) \o U32(1) \o U32(12)
                       \o <<101, 110, 85, 83>> \o U32(4) \o U32(40)
                       \o <<0, 72, 0, 105>>]
      [] kind = "desc" ->      \* "desc", 0, ASCII "ab", no Unicode, no ScriptCode
            [sig |-> <<100, 101, 115, 99>>, size |-> 25,
             bytes |-> <<100, 101, 115, 99>> \o U32(0) \o U32(2) \o <<97, 98>>
                       \o U32(0) \o U32(0) \o U16(0) \o <<0>>]

\* The kinds the tag lists of up to MaxTags entries are drawn from.
ListKinds == {"curvN", "curvShort", "ZZZZ", "FFFF", "text"}

\* The kinds that appear as the only tag of a profile.
SingleKinds ==
    {"textOver", "para0", "para1", "para2", "para3", "para4", "para9", "XYZ", "XYZ_",
     "XYZ0",
     "XYZcancel", "sf32", "mluc",
     "mlucOver", "mlucBeyond", "desc"}

\* The sample values of the generated curves: 0x0000, 0x1234, 0xFFFF.
SampleBytes == {<<0, 0>>, <<18, 52>>, <<255, 255>>}

\* Every curv element of a declared count up to MaxCount that holds up to
\* MaxSamples samples: declared counts below, at and above what is present.
CurveElements ==
    { CurveElement(n, Flatten(ss)) :
        n \in 0..MaxCount,
        ss \in UNION { [1..m -> SampleBytes] : m \in 0..MaxSamples } }

RECURSIVE SumLen(_, _)
SumLen(elements, n) ==
    IF n = 0 THEN 0 ELSE Len(elements[n].bytes) + SumLen(elements, n - 1)

\* A whole file: header, tag count, table entries, then the elements one
\* after the other.
FileBytes(h, elements) ==
    LET n == Len(elements)
        at(k) == 132 + 12 * n + SumLen(elements, k - 1)
        entries == Flatten([k \in 1..n |->
                       elements[k].sig \o U32(at(k)) \o U32(elements[k].size)])
    IN  HeaderBytes([h EXCEPT !.size = at(n + 1)]) \o U32(n) \o entries
            \o Flatten([k \in 1..n |-> elements[k].bytes])

\* The file of the named kinds.
FileOf(h, kinds) == FileBytes(h, [k \in 1..Len(kinds) |-> Element(kinds[k])])

GoodHeader ==
    [size |-> 0, ver |-> <<4, 48, 0, 0>>, date |-> <<2020, 2, 29, 12, 30, 59>>,
     sig |-> acsp, intent |-> 1, illum |-> D50]

\* Creation dates datetime.datetime() rejects: 29 February of a common year,
\* year 0, month 13, hour 24, and six times 0xFFFF.
BadDates ==
    { <<2021, 2, 29, 0, 0, 0>>, <<0, 1, 1, 0, 0, 0>>, <<2021, 13, 1, 0, 0, 0>>,
      <<2021, 1, 1, 24, 0, 0>>, <<65535, 65535, 65535, 65535, 65535, 65535>> }

\* Headers that deviate from GoodHeader in the file signature, the rendering
\* intent and the illuminant, in every combination.
Headers ==
    { [GoodHeader EXCEPT !.sig = sg, !.intent = ri, !.illum = il] :
        sg \in {acsp, <<65, 67, 83, 80>>}, ri \in {1, 4}, il \in {D50, Zeros(12)} }
    \cup { [GoodHeader EXCEPT !.date = d] : d \in BadDates }
    \cup { [GoodHeader EXCEPT !.date = <<2021, 2, 29, 0, 0, 0>>, !.illum = Zeros(12)],
           [GoodHeader EXCEPT !.ver = <<132, 154, 1, 2>>] }
    \cup { [GoodHeader EXCEPT !.ver = <<v, v, 0, 0>>] : v \in {127, 128, 255} }

\* Tag lists with an element outside ListKinds followed or preceded by a
\* text element.
TagLists == { <<"para9", "text">>, <<"text", "para9">> }

\* The lengths files are truncated to: inside the header, inside the tag
\* table, inside the element.
Truncations == {9, 38, 100, 130, 158}

\* The files of the model: header deviations over one tag, whole and
\* truncated, on both byte orders for the version field; tag lists of up to
\* MaxTags entries; one file per remaining element type and per curve.
Files ==
    { [bytes |-> FileOf(h, <<"curvN">>), order |-> "little"] : h \in Headers }
    \cup { [bytes |-> Slice(FileOf(h, <<"curvN">>), 0, keep), order |-> "little"] :
             h \in Headers, keep \in Truncations }
    \cup { [bytes |-> FileOf([GoodHeader EXCEPT !.ver = <<132, 154, 1, 2>>],
                             <<"curvN">>), order |-> "big"] }
    \cup { [bytes |-> FileOf(GoodHeader, kinds), order |-> "little"] :
             kinds \in UNION { [1..m -> ListKinds] : m \in 0..MaxTags } }
    \cup { [bytes |-> FileOf(GoodHeader, <<kind>>), order |-> "little"] :
             kind \in SingleKinds }
    \cup { [bytes |-> FileOf(GoodHeader, kinds), order |-> "little"] :
             kinds \in TagLists }
    \cup { [bytes |-> FileOf([GoodHeader EXCEPT !.date = <<2021, 2, 29, 0, 0, 0>>],
                             kinds), order |-> "little"] :
             kinds \in {<<"XYZ0", "text">>, <<"text", "curvShort">>} }
    \cup { [bytes |-> FileBytes(GoodHeader, <<e>>), order |-> "little"] :
             e \in CurveElements }

\* buf with the bytes from 128 on replaced by another tag table and element
\* (a buffer that does not hold a whole header is left as it is).
ReplaceTail(buf) ==
    IF Len(buf) < 128 THEN buf
    ELSE Slice(buf, 0, 128) \o U32(1)
             \o <<99, 112, 114, 116>> \o U32(144) \o U32(16) \o Element("text").bytes

\* size bytes that start like a curv element declaring more samples than fit.
BrokenCurve(size) ==
    Slice(<<99, 117, 114, 118>> \o U32(0) \o U32(size) \o Zeros(size), 0, size)

\* size bytes that start with the type signature "ZZZZ".
UnknownElement(size) == Slice(<<90, 90, 90, 90>> \o Zeros(size), 0, size)

Overwrite(buf, offset, bytes) ==
    [k \in 1..Len(buf) |->
        IF k - 1 \in offset..(offset + Len(bytes) - 1)
        THEN bytes[k - offset]
        ELSE buf[k]]

ReplaceEntryPayload(buf, entry, broken) ==
    IF entry.ok /\ entry.v.tagoffset + entry.v.tagsize <= Len(buf)
    THEN Overwrite(buf, entry.v.tagoffset,
                   IF broken THEN BrokenCurve(entry.v.tagsize)
                   ELSE UnknownElement(entry.v.tagsize))
    ELSE buf

\* buf with the bytes table entry t (0-based) refers to replaced, when the
\* table has such an entry, the entry is readable and the bytes lie in buf.
ReplacePayload(buf, t, broken) ==
    IF /\ unpack_uInt32Number(Slice(buf, 128, 132)).ok
       /\ t < unpack_uInt32Number(Slice(buf, 128, 132)).v
    THEN ReplaceEntryPayload(buf, TagEntry(TagPosition(t), buf), broken)
    ELSE buf

\* The bytes of a para element from its last parameter on replaced by 0xAA.
RetrailElement(buf, entry, functiontype) ==
    IF functiontype.ok /\ functiontype.v \in ParametricTypes
    THEN [k \in 1..Len(buf) |->
            IF /\ k - 1 >= entry.tagoffset + 12
                            + 4 * Len(ParametricParameters(functiontype.v))
               /\ k - 1 < entry.tagoffset + entry.tagsize
            THEN 170 ELSE buf[k]]
    ELSE buf

\* buf with the bytes behind the parameters of the para element of table
\* entry 0 replaced, when there is such an element.
Retrail(buf, entry) ==
    IF entry.ok /\ Slice(buf, entry.v.tagoffset, entry.v.tagoffset + 4) = <<112, 97, 114, 97>>
    THEN RetrailElement(buf, entry.v,
             unpack_uInt16Number(Slice(buf, entry.v.tagoffset + 8, entry.v.tagoffset + 10)))
    ELSE buf

\* buf with the creation date replaced by 29 February 2021 (a buffer that
\* does not hold the whole field is left as it is).
WithBadDate(buf) ==
    IF Len(buf) < 36 THEN buf
    ELSE Overwrite(buf, 24, Flatten([k \in 1..6 |-> U16(<<2021, 2, 29, 0, 0, 0>>[k])]))

\* The files a second decoder instance reads beside buf: the same file, the
\* file with another tail, with one tag's element replaced, with other
\* bytes behind the parameters of a para element, with a bad creation date,
\* and cut inside the header.
Companions(buf) ==
    {buf, ReplaceTail(buf), Retrail(buf, TagEntry(TagPosition(0), buf)),
     WithBadDate(buf), Slice(buf, 0, 100)}
    \cup { ReplacePayload(buf, t, broken) :
             t \in 0..(MaxTags - 1), broken \in BOOLEAN }

-----------------------------------------------------------------------------
(* The state machine: two independent iccProfile instances, the second     *)
(* reading after the first has returned.                                   *)

Instances == {1, 2}

\* No module-level function is called directly.
NoCall == [fn |-> "none", arg |-> <<>>, ret |-> <<>>, back |-> <<>>]

Init ==
    \E f \in Files :
        \E other \in Companions(f.bytes) :
            /\ byteorder = f.order
            /\ buffer = <<f.bytes, other>>
            /\ profile = <<iccProfile, iccProfile>>
            /\ pc = <<1, 1>>
            /\ tagidx = <<-1, -1>>
            /\ stdout = << <<>>, <<>> >>
            /\ result = <<"none", "none">>
            /\ call = NoCall
            /\ report = <<"none", "none">>
            /\ files = <<None, None>>
            /\ reads = <<1, 1>>

\* Instance i may take a step: the program is sequential.
Running(i) == result[i] = "none" /\ (i = 2 => result[1] # "none")

\* The body of the loop of iccProfile.read for a header attribute: read it,
\* and on any exception print "Skip ..." and continue.
ReadHeaderAttribute(i) ==
    /\ Running(i)
    /\ pc[i] \in 1..(TagTableAt - 1)
    /\ \E u \in UninitializedFor(HeaderXYZSlices(pc[i], buffer[i])) :
        LET k == pc[i]
            r == HeaderRead(k, profile[i][Attributes[k]], buffer[i], byteorder, u)
        IN  /\ profile' = [profile EXCEPT ![i][Attributes[k]] = r.self]
            /\ stdout' = [stdout EXCEPT ![i] =
                            IF r.raised THEN Append(@, SkipLine(k))
                            ELSE IF k = 7 /\ r.printed
                            THEN Append(@, <<"iccDateTimeNumber Exception", "ValueError">>)
                            ELSE @]
            /\ pc' = [pc EXCEPT ![i] = k + 1]
    /\ UNCHANGED <<byteorder, buffer, tagidx, result, call, report, files, reads>>

\* iccTagTable.read up to its loop.  When it raises, iccProfile.read prints
\* and, the tag table being the last attribute, returns.
TagTableBegin(i) ==
    /\ Running(i)
    /\ pc[i] = TagTableAt
    /\ tagidx[i] = -1
    /\ LET r == iccTagTable_begin(profile[i].tagtable, buffer[i])
       IN  /\ profile' = [profile EXCEPT ![i].tagtable = r.self]
           /\ IF r.raised
              THEN /\ stdout' = [stdout EXCEPT ![i] = Append(@, SkipLine(TagTableAt))]
                   /\ pc' = [pc EXCEPT ![i] = Returned]
                   /\ result' = [result EXCEPT ![i] = "returned"]
                   /\ UNCHANGED tagidx
              ELSE /\ tagidx' = [tagidx EXCEPT ![i] = 0]
                   /\ UNCHANGED <<stdout, pc, result>>
    /\ UNCHANGED <<byteorder, buffer, call, report, files, reads>>

\* One pass of the loop of iccTagTable.read.
TagTablePass(i) ==
    /\ Running(i)
    /\ pc[i] = TagTableAt
    /\ tagidx[i] >= 0
    /\ tagidx[i] < profile[i].tagtable.tagcount[1]
    /\ \E u \in UninitializedFor(TagXYZSlices(tagidx[i], buffer[i])) :
        LET r == iccTagTable_pass(profile[i].tagtable, tagidx[i], buffer[i], u)
        IN  /\ profile' = [profile EXCEPT ![i].tagtable = r.self]
            /\ IF r.raised
               THEN /\ stdout' = [stdout EXCEPT ![i] = Append(@, SkipLine(TagTableAt))]
                    /\ pc' = [pc EXCEPT ![i] = Returned]
                    /\ tagidx' = [tagidx EXCEPT ![i] = -1]
                    /\ result' = [result EXCEPT ![i] = "returned"]
               ELSE /\ tagidx' = [tagidx EXCEPT ![i] = @ + 1]
                    /\ UNCHANGED <<stdout, pc, result>>
    /\ UNCHANGED <<byteorder, buffer, call, report, files, reads>>

\* The loop of iccTagTable.read is exhausted: read() and iccProfile.read return.
TagTableEnd(i) ==
    /\ Running(i)
    /\ pc[i] = TagTableAt
    /\ tagidx[i] >= 0
    /\ tagidx[i] = profile[i].tagtable.tagcount[1]
    /\ pc' = [pc EXCEPT ![i] = Returned]
    /\ tagidx' = [tagidx EXCEPT ![i] = -1]
    /\ result' = [result EXCEPT ![i] = "returned"]
    /\ UNCHANGED <<byteorder, buffer, profile, stdout, call, report, files, reads>>

Next ==
    \E i \in Instances :
        \/ ReadHeaderAttribute(i)
        \/ TagTableBegin(i)
        \/ TagTablePass(i)
        \/ TagTableEnd(i)

Spec == Init /\ [][Next]_vars

-----------------------------------------------------------------------------
(* The rest of __main__: the report, and the sidecar files of -e            *)

\* XYZNumber.__str__ indexes _XYZ[2]: an IndexError for a shorter array.
XYZNumber_strRaises(number) == Len(number.XYZ) < 3

\* str() of the element of a stored tag raises: XYZ_Type.__str__ renders each
\* of its XYZNumbers; the other element types format with "{}" only.
iccTag_strRaises(tag) ==
    /\ tag # None
    /\ tag[1].type # None
    /\ tag[1].type[1].class = "XYZ_Type"
    /\ \E k \in 1..Len(tag[1].type[1].XYZ) : XYZNumber_strRaises(tag[1].type[1].XYZ[k])

\* iccProfile.__str__ raises: "{:<b}" and "{:<}" reject None (TypeError), the
\* illuminant may be short, numpy.ndenumerate(None) yields the index () whose
\* [0] is an IndexError, and a row's tag may raise.
iccProfile_strRaises(self) ==
    \/ self.deviceattributes.deviceattributes = None
    \/ self.renderingintent.renderingintent = None
    \/ XYZNumber_strRaises(self.pcsilluminant.pcsilluminant)
    \/ self.tagtable.tags = None
    \/ \E j \in 1..Len(self.tagtable.tags[1]) : iccTag_strRaises(self.tagtable.tags[1][j].tag)

\* print(testField): the text is not kept, only whether __str__ returned.  An
\* exception leaves the `with` block and ends the program.
Report(i) ==
    /\ result[i] = "returned"
    /\ report[i] = "none"
    /\ report' = [report EXCEPT ![i] =
                    IF iccProfile_strRaises(profile[i]) THEN "raised" ELSE "printed"]
    /\ UNCHANGED <<byteorder, buffer, profile, pc, tagidx, stdout, result, call, files,
                   reads>>

\* n/d scaled by 10**k and truncated, with the remainder.
RECURSIVE Scaled(_, _, _)
Scaled(n, d, k) ==
    IF k = 0 THEN [q |-> n \div d, r |-> n % d]
    ELSE [q |-> Scaled(n, d, k - 1).q * 10 + (Scaled(n, d, k - 1).r * 10) \div d,
          r |-> (Scaled(n, d, k - 1).r * 10) % d]

\* The nearest integer to q + r/d, ties to the even one.
Nearest(s, d) ==
    IF 2 * s.r > d \/ (2 * s.r = d /\ s.q % 2 = 1) THEN s.q + 1 ELSE s.q

\* "  {:.5f}".format(v): v rounded to five decimals, kept as the number of
\* hundred-thousandths.
Format5f(v) == Nearest(Scaled(v.n, v.d, 5), v.d)

\* ".spi1d"
spi1d == <<46, 115, 112, 105, 49, 100>>

\* open(name, "w") and write: a file of this name is replaced.
WriteFile(fs, file) == {f \in fs : f.name # file.name} \cup {file}

\* curvType.extract_lut(name): the Length line is _curve.shape[0], then one
\* line per value of _curve.  open() rejects a name with an embedded NUL.
extract_lut(self, name, fs) ==
    IF self.curve = None \/ (\E k \in 1..Len(name) : name[k] = 0)
    THEN fs
    ELSE WriteFile(fs, [name |-> name \o spi1d,
                        Length |-> Len(self.curve[1]),
                        lines |-> [k \in 1..Len(self.curve[1]) |->
                                      Format5f(self.curve[1][k])]])

\* One pass of the loop of -e: tag.type.extract_lut(signature); the
\* AttributeError of a None tag, a None type or a type without extract_lut is
\* caught and the loop continues.
ExtractPass(row, fs) ==
    IF row.tag = None THEN fs
    ELSE IF row.tag[1].type = None THEN fs
    ELSE IF row.tag[1].type[1].class # "curvType" THEN fs
    ELSE extract_lut(row.tag[1].type[1], row.signature, fs)

\* The loop over testField.tags from row j on.
RECURSIVE ExtractFrom(_, _, _)
ExtractFrom(rows, j, fs) ==
    IF j > Len(rows) THEN fs
    ELSE ExtractFrom(rows, j + 1, ExtractPass(rows[j], fs))

\* `if args.extract_lut:` with -e given, after the report has been printed.
ExtractLut(i) ==
    /\ report[i] = "printed"
    /\ files[i] = None
    /\ files' = [files EXCEPT ![i] = Some(ExtractFrom(profile[i].tagtable.tags[1], 1, {}))]
    /\ UNCHANGED <<byteorder, buffer, profile, pc, tagidx, stdout, result, call, report,
                   reads>>

MainNext ==
    \/ Next
    \/ \E i \in Instances : Report(i)
    \/ \E i \in Instances : ExtractLut(i)

\* The program with -e.
MainSpec == Init /\ [][MainNext]_vars

-----------------------------------------------------------------------------
(* A further read() on an instance that has been decoded                   *)

\* read(buffer) called again on instance 1, with the buffer of instance 2:
\* iccProfile.read has no guard, it visits the attributes again from the
\* first one on.
ReadAgain ==
    /\ result[1] = "returned"
    /\ reads[1] < MaxReads
    /\ buffer' = [buffer EXCEPT ![1] = buffer[2]]
    /\ pc' = [pc EXCEPT ![1] = 1]
    /\ result' = [result EXCEPT ![1] = "none"]
    /\ report' = [report EXCEPT ![1] = "none"]
    /\ reads' = [reads EXCEPT ![1] = @ + 1]
    /\ UNCHANGED <<byteorder, profile, tagidx, stdout, call, files>>

LifeNext ==
    \/ Next
    \/ \E i \in Instances : Report(i)
    \/ ReadAgain

\* The decoder used as a library: instance 1 may be handed a second buffer.
LifeSpec == Init /\ [][LifeNext]_vars

-----------------------------------------------------------------------------
(* The primitive readers called directly on a byte view                    *)

PrimitiveReaders ==
    {"unpack_uInt8Number", "unpack_uInt16Number", "unpack_uInt32Number",
     "unpack_tagSignature", "unpack_s15Fixed16Number", "unpack_u8Fixed8Number"}

\* The bytes the generated views are made of.
ViewBytes == {0, 1, 127, 128, 255}

\* The byte views of length 0..MaxViewLen.
Views == UNION {[1..n -> ViewBytes] : n \in 0..MaxViewLen}

\* The floats fs15f16 is called with directly: multiples of 2**-17, so that
\* halves are among the scaled values.
Floats == {Frac(n, 131072) : n \in -5..5}

\* What a call returns: the exception is part of the outcome.
Raised == [raised |-> TRUE]

Returns(v) == [raised |-> FALSE, value |-> v]

Outcome(r) == IF r.ok THEN Returns(r.v) ELSE Raised

\* The call fn(arg) of a module-level function.
CallOf(fn, arg) ==
    CASE fn = "unpack_uInt8Number" -> Outcome(unpack_uInt8Number(arg))
      [] fn = "unpack_uInt16Number" -> Outcome(unpack_uInt16Number(arg))
      [] fn = "unpack_uInt32Number" -> Outcome(unpack_uInt32Number(arg))
      [] fn = "unpack_tagSignature" -> Outcome(unpack_tagSignature(arg))
      [] fn = "unpack_s15Fixed16Number" -> Returns(unpack_s15Fixed16Number(arg))
      [] fn = "unpack_u8Fixed8Number" -> Returns(unpack_u8Fixed8Number(arg))
      [] fn = "fs15f16" -> Returns(fs15f16(arg))

\* The calls made: every reader on every view (an unsigned 32-bit value is
\* kept below 2**31), and fs15f16 on every float.
Calls ==
    {[fn |-> f, arg |-> v, ret |-> <<>>, back |-> <<>>] :
        f \in PrimitiveReaders \ {"unpack_uInt32Number"}, v \in Views}
    \cup {[fn |-> "unpack_uInt32Number", arg |-> v, ret |-> <<>>, back |-> <<>>] :
            v \in {w \in Views : Len(w) = 4 => w[1] < 128}}
    \cup {[fn |-> "fs15f16", arg |-> x, ret |-> <<>>, back |-> <<>>] : x \in Floats}

PrimInit ==
    /\ call \in Calls
    /\ byteorder = "little"
    /\ buffer = << <<>>, <<>> >>
    /\ profile = <<iccProfile, iccProfile>>
    /\ pc = <<1, 1>>
    /\ tagidx = <<-1, -1>>
    /\ stdout = << <<>>, <<>> >>
    /\ result = <<"none", "none">>
    /\ report = <<"none", "none">>
    /\ files = <<None, None>>
    /\ reads = <<0, 0>>

\* The function is called and its outcome kept.
CallPrimitive ==
    /\ call.fn # "none"
    /\ call.ret = <<>>
    /\ call' = [call EXCEPT !.ret = <<CallOf(call.fn, call.arg)>>]
    /\ UNCHANGED <<byteorder, buffer, profile, pc, tagidx, stdout, result, report, files, reads>>

\* fs15f16 applied to the one number unpack_s15Fixed16Number decoded.
Reencode ==
    /\ call.fn = "unpack_s15Fixed16Number"
    /\ call.ret # <<>>
    /\ call.back = <<>>
    /\ ~call.ret[1].raised
    /\ Len(call.ret[1].value) = 1
    /\ call' = [call EXCEPT !.back = <<fs15f16(call.ret[1].value[1])>>]
    /\ UNCHANGED <<byteorder, buffer, profile, pc, tagidx, stdout, result, report, files, reads>>

PrimNext == CallPrimitive \/ Reencode

PrimSpec == PrimInit /\ [][PrimNext]_vars

-----------------------------------------------------------------------------
(* What a caller observes of a decoder instance *)

\* iccProfile.tags: the rows of the tag array, none while _tags is None.
Rows(i) ==
    IF profile[i].tagtable.tags = None THEN <<>> ELSE profile[i].tagtable.tags[1]

\* The 18 header fields, profile size through reserved.
HeaderFields(i) == [k \in 1..(TagTableAt - 1) |-> profile[i][Attributes[k]]]

\* Row j (1-based) holds a tag.
Stored(i, j) == Rows(i)[j].tag # None

\* The walk of instance i came to row j: every row before it was stored.
Reached(i, j) == \A k \in 1..(j - 1) : Stored(i, k)

\* The bytes [offset, offset + size) a stored tag refers to.
PayloadOf(tag) == tag.tagoffset..(tag.tagoffset + tag.tagsize - 1)

\* Uninitialized memory that happens to hold zeros.
ZeroMemory(slices) == [c \in DOMAIN slices |-> <<Frac(0, 1), Frac(0, 1)>>]

\* The decode of buf reads uninitialized memory: in the illuminant or in an
\* XYZ element of one of its first n tags.
ReadsUninitialized(buf, n) ==
    \/ XYZReadsUninitialized(Slice(buf, 68, 80))
    \/ \E j \in 0..(n - 1) :
          \E c \in DOMAIN TagXYZSlices(j, buf) :
              XYZReadsUninitialized(TagXYZSlices(j, buf)[c])

-----------------------------------------------------------------------------
(* C1 *)

\* C1, as claimed: for every buffer whose bytes 36..40 are not "acsp",
\* iccProfile.read does not return normally (it rejects the profile) and no
\* attribute after the file signature, primary platform through tag table,
\* is decoded: each is as the constructor left it.  (Stated for buffers that
\* hold the four bytes.)
C1_SignatureGate ==
    \A i \in Instances :
        (Len(buffer[i]) >= 40 /\ Slice(buffer[i], 36, 40) # acsp) =>
            /\ result[i] # "returned"
            /\ \A k \in 9..TagTableAt :
                   profile[i][Attributes[k]] = iccProfile[Attributes[k]]

-----------------------------------------------------------------------------
(* C2 *)

DecoderFailsFor(entry, signaturetype, buf, u) ==
    /\ signaturetype.ok
    /\ signaturetype.v \in ElementTypeNames
    /\ ~signatureclass(signaturetype.v, entry.tagoffset, entry.tagsize, buf, u).ok

DecoderFailsAt(entry, buf, u) ==
    entry.ok /\ DecoderFailsFor(entry.v, SignatureType(entry.v.tagoffset, buf), buf, u)

\* The element-type decoder of row j (1-based) of buf is invoked and raises.
DecoderFails(buf, j) ==
    DecoderFailsAt(TagEntry(TagPosition(j - 1), buf), buf,
                   ZeroMemory(TagXYZSlices(j - 1, buf)))

\* The rows tag j (1-based) of buf gives when it is read by itself: none when
\* the tag raises, several when it reads uninitialized memory.
ExpectedRows(buf, j) ==
    { [signature |-> U4(t.v.tagsignature), tag |-> Some(t.v)] :
        t \in { x \in { iccTag_read(TagPosition(j - 1), buf, u) :
                          u \in UninitializedFor(TagXYZSlices(j - 1, buf)) } : x.ok } }

\* C2, as claimed: when the element-type decoder of a tag f fails during the
\* walk, every other tag j of the table that decodes by itself is stored by
\* the finished read exactly as it decodes by itself.
C2_TagLocalFailure ==
    \A i \in Instances :
        result[i] = "returned" =>
            \A f \in 1..Len(Rows(i)) :
                (Reached(i, f) /\ DecoderFails(buffer[i], f)) =>
                    \A j \in (1..Len(Rows(i))) \ {f} :
                        ExpectedRows(buffer[i], j) # {} =>
                            Rows(i)[j] \in ExpectedRows(buffer[i], j)

-----------------------------------------------------------------------------
(* C3 *)

\* Instance i decoded a well-formed profile: no read raised, every tag of the
\* table was stored, every payload lies inside the buffer behind the tag
\* table, no two payloads overlap, and nothing read uninitialized memory.
WellFormed(i) ==
    /\ result[i] = "returned"
    /\ stdout[i] = <<>>
    /\ ~ReadsUninitialized(buffer[i], Len(Rows(i)))
    /\ \A j \in 1..Len(Rows(i)) :
          /\ Stored(i, j)
          /\ Rows(i)[j].tag[1].tagoffset >= TagPosition(Len(Rows(i)))
          /\ Rows(i)[j].tag[1].tagoffset + Rows(i)[j].tag[1].tagsize <= Len(buffer[i])
    /\ \A j, k \in 1..Len(Rows(i)) :
          j # k => PayloadOf(Rows(i)[j].tag[1]) \cap PayloadOf(Rows(i)[k].tag[1]) = {}

\* b2 differs from b1 at offsets of the set S only.
DiffersOnlyIn(b1, b2, S) ==
    /\ Len(b1) = Len(b2)
    /\ \A k \in 1..Len(b1) : b1[k] # b2[k] => (k - 1) \in S

\* C3, as claimed: when instance 1 decoded a well-formed profile P and
\* instance 2 a buffer P' that differs from P only inside the payload of one
\* tag t, both decodes give the same header fields and the same row for
\* every tag other than t.
C3_Isolation ==
    (WellFormed(1) /\ result[2] = "returned") =>
        \A t \in 1..Len(Rows(1)) :
            DiffersOnlyIn(buffer[1], buffer[2], PayloadOf(Rows(1)[t].tag[1])) =>
                /\ HeaderFields(1) = HeaderFields(2)
                /\ Len(Rows(2)) = Len(Rows(1))
                /\ \A j \in (1..Len(Rows(1))) \ {t} : Rows(2)[j] = Rows(1)[j]

-----------------------------------------------------------------------------
(* C4 *)

\* C4, as claimed: two buffers of length >= 128 that agree on bytes 0..128
\* give the same value for every one of the 18 header fields.
C4_HeaderOffsetsFixed ==
    ( /\ result[1] = "returned" /\ result[2] = "returned"
      /\ Len(buffer[1]) >= 128 /\ Len(buffer[2]) >= 128
      /\ Slice(buffer[1], 0, 128) = Slice(buffer[2], 0, 128) ) =>
        HeaderFields(1) = HeaderFields(2)

-----------------------------------------------------------------------------
(* C5 *)

\* C5, as claimed: every tag present in the tag table lies inside the
\* buffer, offset + size <= buffer length, and inside the declared profile
\* size when that was decoded.
C5_TagContainment ==
    \A i \in Instances :
        \A j \in 1..Len(Rows(i)) :
            Stored(i, j) =>
                /\ Rows(i)[j].tag[1].tagoffset + Rows(i)[j].tag[1].tagsize
                       <= Len(buffer[i])
                /\ profile[i].profilesize.profilesize # None =>
                       Rows(i)[j].tag[1].tagoffset + Rows(i)[j].tag[1].tagsize
                           <= profile[i].profilesize.profilesize[1]

-----------------------------------------------------------------------------
(* C6 *)

\* C6, as claimed: the rendering intent the profile holds is always absent
\* or one of 0, 1, 2, 3.
C6_RenderingIntentDomain ==
    \A i \in Instances :
        profile[i].renderingintent.renderingintent
            \in {None} \cup { Some(k) : k \in 0..3 }

-----------------------------------------------------------------------------
(* C7 *)

NamesNoDecoderAt(entry, buf) ==
    /\ entry.ok
    /\ Len(Slice(buf, entry.v.tagoffset, entry.v.tagoffset + 4)) = 4
    /\ ReplaceSpaces(Slice(buf, entry.v.tagoffset, entry.v.tagoffset + 4))
           \notin ElementTypeNames

\* The four bytes at the offset of tag j (1-based) of buf are there and are
\* the name of no element class.
NamesNoDecoder(buf, j) == NamesNoDecoderAt(TagEntry(TagPosition(j - 1), buf), buf)

\* The row of tag j with its signature, offset and size, and no type.
UntypedRow(buf, j) ==
    [signature |-> U4(TagEntry(TagPosition(j - 1), buf).v.tagsignature),
     tag |-> Some(iccTag(TagPosition(j - 1), TagEntry(TagPosition(j - 1), buf).v, None))]

\* C7, as claimed: when the walk comes to a tag whose four type bytes name
\* no registered decoder, the finished read holds the tag with its
\* signature, offset and size and with type None (so the walk went on past
\* it without an error).
C7_UnknownElementType ==
    \A i \in Instances :
        result[i] = "returned" =>
            \A j \in 1..Len(Rows(i)) :
                (Reached(i, j) /\ NamesNoDecoder(buffer[i], j)) =>
                    Rows(i)[j] = UntypedRow(buffer[i], j)

-----------------------------------------------------------------------------
(* C8 *)

\* C8, as claimed: on a buffer shorter than 128 bytes iccProfile.read never
\* returns normally (it ends with an error to the caller).
C8_TruncatedHeaderFatal ==
    \A i \in Instances : Len(buffer[i]) < 128 => result[i] # "returned"

-----------------------------------------------------------------------------
(* C9 *)

\* The element of type curvType a stored tag holds, if any.
IsCurve(tag) == tag.type # None /\ tag.type[1].class = "curvType"

\* Element e is the 1D curve of the element bytes b: the count is the u32 at
\* bytes 8..12, there are exactly count samples, sample k is the big-endian
\* u16 at bytes 12+2k..14+2k over 65535, and lies in [0, 1].
NormalizedCurve(e, b) ==
    /\ Len(b) >= 12
    /\ e.entriescount = ((b[9] * 256 + b[10]) * 256 + b[11]) * 256 + b[12]
    /\ e.curvetype = "1D Curve"
    /\ e.curve # None
    /\ Len(e.curve[1]) = e.entriescount
    /\ \A k \in 0..(e.entriescount - 1) :
          /\ 14 + 2 * k <= Len(b)
          /\ e.curve[1][k + 1] = Frac(b[13 + 2 * k] * 256 + b[14 + 2 * k], 65535)
          /\ 0 <= e.curve[1][k + 1].n
          /\ e.curve[1][k + 1].n <= e.curve[1][k + 1].d

ShortCurveBytes(b) ==
    /\ Len(b) >= 12
    /\ Slice(b, 0, 4) = <<99, 117, 114, 118>>
    /\ ((b[9] * 256 + b[10]) * 256 + b[11]) * 256 + b[12] > 1
    /\ Len(b) < 12 + 2 * (((b[9] * 256 + b[10]) * 256 + b[11]) * 256 + b[12])

ShortCurveAt(entry, buf) ==
    entry.ok /\ ShortCurveBytes(Slice(buf, entry.v.tagoffset,
                                      entry.v.tagoffset + entry.v.tagsize))

\* Tag j (1-based) of buf refers to a curv element with count > 1 whose slice
\* holds fewer than 12 + 2*count bytes.
ShortCurve(buf, j) == ShortCurveAt(TagEntry(TagPosition(j - 1), buf), buf)

\* C9: every stored curv element with count > 1 has exactly count samples,
\* sample k being the big-endian u16 at element bytes 12+2k..14+2k divided by
\* 65535, in [0, 1]; and when the walk comes to a curv element with count > 1
\* whose slice holds fewer than 12 + 2*count bytes, the decoder fails: the
\* finished read holds no tag for it and its last output line is the skip of
\* the tag table.
C9_CurveNormalization ==
    \A i \in Instances :
        \A j \in 1..Len(Rows(i)) :
            /\ (Stored(i, j) /\ IsCurve(Rows(i)[j].tag[1])
                    /\ Rows(i)[j].tag[1].type[1].entriescount > 1) =>
                   NormalizedCurve(Rows(i)[j].tag[1].type[1],
                                   Slice(buffer[i], Rows(i)[j].tag[1].tagoffset,
                                         Rows(i)[j].tag[1].tagoffset
                                             + Rows(i)[j].tag[1].tagsize))
            /\ (result[i] = "returned" /\ Reached(i, j) /\ ShortCurve(buffer[i], j)) =>
                   /\ ~Stored(i, j)
                   /\ stdout[i] # <<>>
                   /\ stdout[i][Len(stdout[i])] = SkipLine(TagTableAt)

\* A finished read whose first tag is the stored curve of the three samples
\* 0x0000, 0x1234, 0xFFFF and whose second tag is a curve declaring four
\* samples over three, not stored.
C9_Witness ==
    \E i \in Instances :
        /\ result[i] = "returned"
        /\ Len(Rows(i)) = 2
        /\ Stored(i, 1)
        /\ IsCurve(Rows(i)[1].tag[1])
        /\ Rows(i)[1].tag[1].type[1].entriescount = 3
        /\ Rows(i)[1].tag[1].type[1].curve =
               Some(<<Frac(0, 65535), Frac(4660, 65535), Frac(65535, 65535)>>)
        /\ ShortCurve(buffer[i], 2)
        /\ ~Stored(i, 2)

-----------------------------------------------------------------------------
(* C10 *)

\* Element e of the element bytes b is classified by its count: 0 gives the
\* identity curve with no value, 1 the power function whose single value is
\* the u16 at bytes 12..14 over 256, more the 1D curve.
ClassifiedByCount(e, b) ==
    /\ e.entriescount = 0 =>
          e.curvetype = "Identity Curve" /\ e.curve = None
    /\ e.entriescount = 1 =>
          /\ e.curvetype = "Power Function"
          /\ Len(b) >= 14
          /\ e.curve = Some(<<Frac(b[13] * 256 + b[14], 256)>>)
    /\ e.entriescount > 1 => e.curvetype = "1D Curve"

\* C10, as claimed: every stored curv element is classified by its count.
C10_CurveClassification ==
    \A i \in Instances :
        \A j \in 1..Len(Rows(i)) :
            (Stored(i, j) /\ IsCurve(Rows(i)[j].tag[1])) =>
                ClassifiedByCount(Rows(i)[j].tag[1].type[1],
                                  Slice(buffer[i], Rows(i)[j].tag[1].tagoffset,
                                        Rows(i)[j].tag[1].tagoffset
                                            + Rows(i)[j].tag[1].tagsize))

-----------------------------------------------------------------------------
(* C11 *)

\* The xyY of a decoded XYZ triple is derived from it: Y_xyY = Y; x = X/s and
\* y = Y/s for s = X + Y + Z # 0; x = y = 0 for s = 0.
Derived(number) ==
    Len(number.XYZ) = 3 =>
        /\ number.xyY[3] = number.XYZ[2]
        /\ IF SumNumerators(number.XYZ, 1) # 0
           THEN /\ number.xyY[1] = Frac(number.XYZ[1].n, SumNumerators(number.XYZ, 1))
                /\ number.xyY[2] = Frac(number.XYZ[2].n, SumNumerators(number.XYZ, 1))
           ELSE /\ number.xyY[1].n = 0
                /\ number.xyY[2].n = 0

\* The element of type XYZ_Type a stored tag holds, if any.
IsXYZ(tag) == tag.type # None /\ tag.type[1].class = "XYZ_Type"

\* C11, as claimed: the xyY of the PCS illuminant and of every XYZ number of
\* every stored XYZ element is derived from its XYZ triple, with x = y = 0
\* when X + Y + Z = 0.
C11_xyYDerivation ==
    \A i \in Instances :
        /\ Derived(profile[i].pcsilluminant.pcsilluminant)
        /\ \A j \in 1..Len(Rows(i)) :
              (Stored(i, j) /\ IsXYZ(Rows(i)[j].tag[1])) =>
                  \A k \in 1..Len(Rows(i)[j].tag[1].type[1].XYZ) :
                      Derived(Rows(i)[j].tag[1].type[1].XYZ[k])

-----------------------------------------------------------------------------
(* C12 *)

\* The integer whose 4-byte big-endian two's-complement encoding is s.
TwosComplement(s) ==
    IF s[1] < 128
    THEN ((s[1] * 256 + s[2]) * 256 + s[3]) * 256 + s[4]
    ELSE -((((255 - s[1]) * 256 + (255 - s[2])) * 256 + (255 - s[3])) * 256
           + (255 - s[4])) - 1

\* C12: for every k in [-2**31, 2**31), unpack_s15Fixed16Number of the 4-byte
\* big-endian two's-complement encoding of k returns k / 2**16, and fs15f16 of
\* that number is k.
C12_s15Fixed16RoundTrip ==
    (call.fn = "unpack_s15Fixed16Number" /\ Len(call.arg) = 4) =>
        /\ call.ret # <<>> =>
              /\ ~call.ret[1].raised
              /\ call.ret[1].value = <<Frac(TwosComplement(call.arg), 65536)>>
        /\ call.back # <<>> => call.back[1] = TwosComplement(call.arg)

\* The encoding of -2**31 has been decoded and encoded again.
C12_Witness ==
    /\ call.fn = "unpack_s15Fixed16Number"
    /\ call.arg = <<128, 0, 0, 0>>
    /\ call.back # <<>>

-----------------------------------------------------------------------------
(* C13 *)

\* The six numbers of the creation-date field of buf.
DateOf(buf) == [k \in 1..6 |-> unpack_uInt16Number(Slice(buf, 22 + 2 * k, 24 + 2 * k)).v]

\* buf holds the whole 12-byte creation-date field, and it is no calendar
\* date-time.
BadDate(buf) == Len(buf) >= 36 /\ ~ValidDateTime(DateOf(buf))

\* buf with the creation-date field replaced by 2020-02-29 12:30:59.
WithValidDate(buf) ==
    Slice(buf, 0, 24) \o Flatten([k \in 1..6 |-> U16(GoodHeader.date[k])])
        \o SliceFrom(buf, 36)

\* What decoding header attribute k of buf into a fresh profile can give.
HeaderOutcomes(k, buf, order) ==
    { HeaderRead(k, iccProfile[Attributes[k]], buf, order, u).self :
        u \in UninitializedFor(HeaderXYZSlices(k, buf)) }

\* The tag tables iccTagTable.read can leave when its loop is at `count`.
RECURSIVE PassOutcomes(_, _, _)

\* ... after a pass that gave r: an exception ends the loop.
TagPassOutcomes(r, count, buf) ==
    IF r.raised THEN {r.self} ELSE PassOutcomes(r.self, count + 1, buf)


PassOutcomes(self, count, buf) ==
    IF count >= self.tagcount[1] THEN {self}
    ELSE UNION { TagPassOutcomes(iccTagTable_pass(self, count, buf, u), count, buf) :
                    u \in UninitializedFor(TagXYZSlices(count, buf)) }

\* ... after the part before the loop gave r.
TagBeginOutcomes(r, buf) ==
    IF r.raised THEN {r.self} ELSE PassOutcomes(r.self, 0, buf)

\* What the decode of the tag table of buf into a fresh profile can give.
TagTableOutcomes(buf) ==
    TagBeginOutcomes(iccTagTable_begin(iccTagTable, buf), buf)

\* C13: a creation-date field that is no calendar date-time leaves the
\* date-time None and lets no error out of the date field (read() prints the
\* ValueError itself, the profile prints no "Skip"), and every later header
\* field and the tag table are decoded as they can be decoded from the same
\* buffer with a valid date.
C13_BadDateLocal ==
    \A i \in Instances :
        BadDate(buffer[i]) =>
            /\ profile[i].datetimenumber.datetime = None
            /\ \A n \in 1..Len(stdout[i]) : stdout[i][n] # SkipLine(7)
            /\ pc[i] > 7 =>
                  \E n \in 1..Len(stdout[i]) :
                      stdout[i][n] = <<"iccDateTimeNumber Exception", "ValueError">>
            /\ \A k \in 8..(TagTableAt - 1) :
                  pc[i] > k =>
                      profile[i][Attributes[k]]
                          \in HeaderOutcomes(k, WithValidDate(buffer[i]), byteorder)
            /\ result[i] = "returned" =>
                  profile[i].tagtable \in TagTableOutcomes(WithValidDate(buffer[i]))

\* A profile with a bad creation date and a zero illuminant has been decoded
\* to the end, tags included.
C13_Witness ==
    /\ BadDate(buffer[1])
    /\ result[1] = "returned"
    /\ Len(Rows(1)) = 2
    /\ Stored(1, 1)
    /\ IsXYZ(Rows(1)[1].tag[1])

-----------------------------------------------------------------------------
(* C14 *)

\* The element the entry refers to is a para element whose function type is
\* readable and is none of 0..4.
BadParametricFor(entry, signaturetype, b) ==
    /\ signaturetype.ok
    /\ signaturetype.v = <<112, 97, 114, 97>>
    /\ unpack_uInt16Number(Slice(b, 8, 10)).ok
    /\ unpack_uInt16Number(Slice(b, 8, 10)).v \notin ParametricTypes

BadParametricAt(entry, buf) ==
    /\ entry.ok
    /\ BadParametricFor(entry.v, SignatureType(entry.v.tagoffset, buf),
                        ElementBuffer(entry.v.tagoffset, entry.v.tagsize, buf))

\* Row j (1-based) of buf refers to a para element with a function type
\* outside 0..4.
BadParametric(buf, j) == BadParametricAt(TagEntry(TagPosition(j - 1), buf), buf)

\* C14, as claimed: a para element whose function type is outside 0..4 fails
\* for its own tag only: every other tag of the table that decodes by itself
\* is stored by the finished read as it decodes by itself.
C14_BadParametricConfined ==
    \A i \in Instances :
        result[i] = "returned" =>
            \A f \in 1..Len(Rows(i)) :
                (Reached(i, f) /\ BadParametric(buffer[i], f)) =>
                    /\ ~Stored(i, f) \/ Rows(i)[f].tag[1].type = None
                    /\ \A j \in (1..Len(Rows(i))) \ {f} :
                          ExpectedRows(buffer[i], j) # {} =>
                              Rows(i)[j] \in ExpectedRows(buffer[i], j)

-----------------------------------------------------------------------------
(* C15 *)

\* Row j (1-based) of instance i holds the entry that bytes
\* 132 + 12(j-1) .. 144 + 12(j-1) of its buffer encode.
RowIsEntry(i, j) ==
    /\ Stored(i, j)
    /\ Rows(i)[j].tag[1].tagsignature = Slice(buffer[i], TagPosition(j - 1), TagPosition(j - 1) + 4)
    /\ Ok(Rows(i)[j].tag[1].tagoffset)
          = unpack_uInt32Number(Slice(buffer[i], TagPosition(j - 1) + 4, TagPosition(j - 1) + 8))
    /\ Ok(Rows(i)[j].tag[1].tagsize)
          = unpack_uInt32Number(Slice(buffer[i], TagPosition(j - 1) + 8, TagPosition(j - 1) + 12))

\* C15, as claimed: when the buffer holds the tag count and the whole table,
\* the decoded table has exactly count rows and row i holds the entry read
\* from bytes 132 + 12 i .. 144 + 12 i, in table order, an entry whose
\* signature occurred before included.
C15_TagTableOrder ==
    \A i \in Instances :
        ( /\ result[i] = "returned"
          /\ unpack_uInt32Number(Slice(buffer[i], 128, 132)).ok
          /\ Len(buffer[i]) >= TagPosition(unpack_uInt32Number(Slice(buffer[i], 128, 132)).v) ) =>
            /\ Len(Rows(i)) = unpack_uInt32Number(Slice(buffer[i], 128, 132)).v
            /\ \A j \in 1..Len(Rows(i)) : RowIsEntry(i, j)

-----------------------------------------------------------------------------
(* C16 *)

\* The lifecycle state of instance i: 0 Empty (the header is not decoded
\* yet), 1 HeaderDecoded (every header field has been visited, the tag table
\* has not been finished), 2 TagsDecoded (read() has returned), 3 Reported.
Phase(i) ==
    IF result[i] = "none"
    THEN IF pc[i] < TagTableAt THEN 0 ELSE 1
    ELSE IF report[i] = "none" THEN 2 ELSE 3

\* C16, as claimed: the lifecycle of a profile is linear and one-way.  In
\* every step no instance moves to an earlier state, header fields change
\* only before the header is decoded and the tag table only after it, and
\* the step that renders the report changes nothing that was decoded.
C16_Lifecycle ==
    [][\A i \in Instances :
          /\ Phase(i)' >= Phase(i)
          /\ HeaderFields(i)' # HeaderFields(i) => Phase(i) = 0
          /\ profile'[i].tagtable # profile[i].tagtable => Phase(i) = 1
          /\ Phase(i)' = 3 /\ Phase(i) = 2 => profile' = profile]_vars

-----------------------------------------------------------------------------
(* C17 *)

\* The stored tag holds an mluc element.
IsMluc(tag) == tag.type # None /\ tag.type[1].class = "mlucType"

\* Record idx (1-based) of the mluc element e decoded from the element bytes
\* b: its declared string lies within the element, and its text is exactly
\* the element bytes [offset, offset + size).
RecordInBounds(e, b, idx) ==
    /\ unpack_uInt32Number(Slice(b, 20 + 12 * (idx - 1), 24 + 12 * (idx - 1))).v
         + unpack_uInt32Number(Slice(b, 24 + 12 * (idx - 1), 28 + 12 * (idx - 1))).v
         <= Len(b)
    /\ Len(e.records[idx].text)
         = unpack_uInt32Number(Slice(b, 20 + 12 * (idx - 1), 24 + 12 * (idx - 1))).v
    /\ e.records[idx].text
         = Slice(b, unpack_uInt32Number(Slice(b, 24 + 12 * (idx - 1), 28 + 12 * (idx - 1))).v,
                 unpack_uInt32Number(Slice(b, 24 + 12 * (idx - 1), 28 + 12 * (idx - 1))).v
                 + unpack_uInt32Number(Slice(b, 20 + 12 * (idx - 1), 24 + 12 * (idx - 1))).v)

\* C17, as claimed: every record of every mluc element that was decoded and
\* stored has offset + size within the element slice and holds the bytes
\* [offset, offset + size) of the element: a record reaching beyond the
\* element never yields a shortened or empty string.
C17_MlucStringBounds ==
    \A i \in Instances :
        \A j \in 1..Len(Rows(i)) :
            (Stored(i, j) /\ IsMluc(Rows(i)[j].tag[1])) =>
                \A idx \in 1..Len(Rows(i)[j].tag[1].type[1].records) :
                    RecordInBounds(Rows(i)[j].tag[1].type[1],
                                   ElementBuffer(Rows(i)[j].tag[1].tagoffset,
                                                 Rows(i)[j].tag[1].tagsize, buffer[i]),
                                   idx)

-----------------------------------------------------------------------------
(* C18 *)

\* The fixed width of each primitive reader, in bytes.
FixedWidth(fn) ==
    CASE fn = "unpack_uInt8Number" -> 1
      [] fn = "unpack_uInt16Number" -> 2
      [] fn = "unpack_uInt32Number" -> 4
      [] fn = "unpack_tagSignature" -> 4
      [] fn = "unpack_s15Fixed16Number" -> 4
      [] fn = "unpack_u8Fixed8Number" -> 2

\* C18, as claimed: a primitive reader called on a view shorter than its
\* fixed width fails: it never returns a value, an empty result included.
C18_PrimitiveShortViews ==
    ( /\ call.fn \in PrimitiveReaders
      /\ Len(call.arg) < FixedWidth(call.fn)
      /\ call.ret # <<>> ) => call.ret[1].raised

-----------------------------------------------------------------------------
(* C19 *)

\* C19, as claimed: once the version field of a buffer that holds bytes 8 and
\* 9 has been read, major is byte 8 as an unsigned number, minor the high
\* nibble of byte 9, bugfix its low nibble, and none of them is negative.
C19_VersionDecoding ==
    \A i \in Instances :
        (pc[i] > 3 /\ Len(buffer[i]) >= 10) =>
            /\ profile[i].profileversion.majorVersion = Some(buffer[i][9])
            /\ profile[i].profileversion.minorVersion = Some(buffer[i][10] \div 16)
            /\ profile[i].profileversion.bugFixVersion = Some(buffer[i][10] % 16)
            /\ profile[i].profileversion.majorVersion[1] >= 0
            /\ profile[i].profileversion.minorVersion[1] >= 0
            /\ profile[i].profileversion.bugFixVersion[1] >= 0

-----------------------------------------------------------------------------
(* C20 *)

\* Row j of instance i holds a curv element that declares more than one sample.
CurveOfSeveral(i, j) ==
    /\ Stored(i, j)
    /\ IsCurve(Rows(i)[j].tag[1])
    /\ Rows(i)[j].tag[1].type[1].entriescount > 1

\* C20, as claimed: after the -e loop, the file <signature>.spi1d exists for
\* the signature of a row exactly when a row of that signature holds a curv
\* element with count > 1; no other file exists; and the Length line of every
\* file is its number of sample lines.
C20_SidecarEmission ==
    \A i \in Instances :
        files[i] # None =>
            /\ \A j \in 1..Len(Rows(i)) :
                  (\E f \in files[i][1] : f.name = Rows(i)[j].signature \o spi1d)
                  <=> (\E k \in 1..Len(Rows(i)) :
                          /\ Rows(i)[k].signature = Rows(i)[j].signature
                          /\ CurveOfSeveral(i, k))
            /\ \A f \in files[i][1] :
                  /\ \E j \in 1..Len(Rows(i)) : f.name = Rows(i)[j].signature \o spi1d
                  /\ f.Length = Len(f.lines)

-----------------------------------------------------------------------------
(* C21 *)

\* The stored tag holds a para element.
IsPara(tag) == tag.type # None /\ tag.type[1].class = "paraType"

\* The number of parameters of each function type, and their names.
ParameterCount(t) ==
    CASE t = 0 -> 1 [] t = 1 -> 3 [] t = 2 -> 4 [] t = 3 -> 5 [] t = 4 -> 7

ParameterNames == <<"g", "a", "b", "c", "d", "e", "f">>

\* Element e is the para element of the element bytes b: as many parameters
\* as its function type has, named by the prefix of g,a,b,c,d,e,f, the i-th
\* (0-based) being the s15Fixed16 number of bytes 12+4i..16+4i.
MappedParameters(e, b) ==
    /\ e.functiontype = b[9] * 256 + b[10]
    /\ Len(e.parameters) = ParameterCount(e.functiontype)
    /\ \A index \in 1..Len(e.parameters) :
          /\ e.parameters[index][1] = ParameterNames[index]
          /\ e.parameters[index][2]
               = <<Frac(TwosComplement(SubSeq(b, 4 * index + 9, 4 * index + 12)), 65536)>>

\* The element bytes hold the parameters of their function type.
HoldsParameters(b) ==
    /\ Len(b) >= 12
    /\ b[9] * 256 + b[10] \in ParametricTypes
    /\ Len(b) >= 12 + 4 * ParameterCount(b[9] * 256 + b[10])

\* b2 is b1 up to byte `from` (0-based) and as long as b1.
SameUpTo(b1, b2, from) ==
    /\ Len(b1) = Len(b2)
    /\ \A k \in 1..Len(b1) : k <= from => b1[k] = b2[k]

\* C21: a stored para element of function type t in 0..4 whose slice holds
\* 12 + fieldlength(t) bytes has exactly 1, 3, 4, 5, 7 parameters, named
\* g,a,b,c,d,e,f in this order, the i-th being the s15Fixed16 number at
\* element bytes 12+4i..16+4i; and a buffer that differs only behind the last
\* parameter of the element decodes to the same tag.
C21_ParaParameterMapping ==
    /\ \A i \in Instances :
          \A j \in 1..Len(Rows(i)) :
              ( /\ Stored(i, j)
                /\ IsPara(Rows(i)[j].tag[1])
                /\ HoldsParameters(ElementBuffer(Rows(i)[j].tag[1].tagoffset,
                                                 Rows(i)[j].tag[1].tagsize, buffer[i])) )
              => MappedParameters(Rows(i)[j].tag[1].type[1],
                                  ElementBuffer(Rows(i)[j].tag[1].tagoffset,
                                                Rows(i)[j].tag[1].tagsize, buffer[i]))
    /\ ( /\ result[1] = "returned" /\ result[2] = "returned"
         /\ Len(Rows(1)) >= 1 /\ Stored(1, 1) /\ IsPara(Rows(1)[1].tag[1])
         /\ HoldsParameters(ElementBuffer(Rows(1)[1].tag[1].tagoffset,
                                          Rows(1)[1].tag[1].tagsize, buffer[1]))
         /\ SameUpTo(buffer[1], buffer[2],
                     Rows(1)[1].tag[1].tagoffset + 12
                       + 4 * Len(Rows(1)[1].tag[1].type[1].parameters)) )
       => Rows(2) = Rows(1)

\* A para element of function type 4 has been decoded from two buffers that
\* differ behind its seven parameters.
C21_Witness ==
    /\ result[1] = "returned" /\ result[2] = "returned"
    /\ buffer[1] # buffer[2]
    /\ Len(Rows(1)) = 1 /\ Stored(1, 1) /\ IsPara(Rows(1)[1].tag[1])
    /\ Rows(1)[1].tag[1].type[1].functiontype = 4
    /\ Len(Rows(1)[1].tag[1].type[1].parameters) = 7
    /\ Rows(2) = Rows(1)

-----------------------------------------------------------------------------
(* C22 *)

\* C22, as claimed: when instance 1 has read a buffer b1 and then the buffer
\* b2 that the fresh instance 2 has read, every attribute of instance 1
\* equals that of instance 2: no value decoded from b1 survives.
C22_RereadEqualsFreshRead ==
    ( /\ reads[1] = 2
      /\ result[1] = "returned"
      /\ result[2] = "returned" ) => profile[1] = profile[2]

-----------------------------------------------------------------------------
(* C23 *)

\* The seven type signatures that have a decoder.
Registry ==
    { <<109, 108, 117, 99>>,    \* "mluc"
      <<99, 117, 114, 118>>,    \* "curv"
      <<112, 97, 114, 97>>,     \* "para"
      <<100, 101, 115, 99>>,    \* "desc"
      <<116, 101, 120, 116>>,   \* "text"
      <<88, 89, 90, 32>>,       \* "XYZ "
      <<115, 102, 51, 50>> }    \* "sf32"

\* The decoder of a signature of the registry.
DecoderOf(sig) ==
    CASE sig = <<109, 108, 117, 99>> -> "mlucType"
      [] sig = <<99, 117, 114, 118>> -> "curvType"
      [] sig = <<112, 97, 114, 97>> -> "paraType"
      [] sig = <<100, 101, 115, 99>> -> "descType"
      [] sig = <<116, 101, 120, 116>> -> "textType"
      [] sig = <<88, 89, 90, 32>> -> "XYZ_Type"
      [] sig = <<115, 102, 51, 50>> -> "sf32Type"

\* The bytes at the offset of tag j (1-based) of buf.
TypeBytes(buf, j) ==
    Slice(buf, TagEntry(TagPosition(j - 1), buf).v.tagoffset,
          TagEntry(TagPosition(j - 1), buf).v.tagoffset + 4)

\* C23, as claimed: when the walk comes to a tag with four bytes at its
\* offset, a signature of the registry is decoded by its own decoder (the
\* tag, where it is stored, holds an element of that class), and every other
\* four bytes give the tag with type None, the walk going on.
C23_DispatchExactness ==
    \A i \in Instances :
        result[i] = "returned" =>
            \A j \in 1..Len(Rows(i)) :
                ( /\ Reached(i, j)
                  /\ TagEntry(TagPosition(j - 1), buffer[i]).ok
                  /\ Len(TypeBytes(buffer[i], j)) = 4 ) =>
                    IF TypeBytes(buffer[i], j) \in Registry
                    THEN Stored(i, j) =>
                            /\ Rows(i)[j].tag[1].type # None
                            /\ Rows(i)[j].tag[1].type[1].class
                                 = DecoderOf(TypeBytes(buffer[i], j))
                    ELSE Rows(i)[j] = UntypedRow(buffer[i], j)

=============================================================================
